---- MODULE Spec2Model ----
(***************************************************************************)
(* FeaturePulse: the crawler (backend/utils/crawler.py), the text utilities *)
(* (backend/utils/utils.py) and the change-detection stage of the tracking  *)
(* agent (backend/agent/feature_pulse_agent.py).                            *)
(*                                                                          *)
(* Text is modelled as a sequence of tokens.  A delimiter (":", "/", "?",   *)
(* "#", "[", "\n") is a token of its own; every other token stands for a    *)
(* run of characters that holds no delimiter ("https", "a.test", ".pdf").   *)
(* Python's string operations are then exact on token sequences: find,      *)
(* slicing, endswith('/'), rstrip('/'), split('/').                         *)
(***************************************************************************)
EXTENDS Integers, Sequences, FiniteSets, TLC

(***************************************************************************)
(* Python string primitives on token sequences.                             *)
(***************************************************************************)
Min(a, b) == IF a < b THEN a ELSE b

\* the element of a set of one element; The({ F(v) : v \in {e} }) is F(e) with e
\* evaluated once, as a local variable v that holds the value of e
The(S) == CHOOSE r \in S : TRUE

\* s[:n]
Take(s, n) == SubSeq(s, 1, Min(n, Len(s)))

\* s[n:]
Drop(s, n) == SubSeq(s, Min(n, Len(s)) + 1, Len(s))

\* c in s
Has(s, c) == \E i \in 1..Len(s) : s[i] = c

\* s.find(c) + 1 for a token out of the set C: the first position, 0 when absent
FindAny(s, C) ==
    IF \E i \in 1..Len(s) : s[i] \in C
    THEN CHOOSE i \in 1..Len(s) : s[i] \in C /\ \A j \in 1..(i - 1) : s[j] \notin C
    ELSE 0

Find(s, c) == FindAny(s, {c})

\* s.endswith(c)
EndsWith(s, c) == Len(s) > 0 /\ s[Len(s)] = c

\* s.rstrip(c): every trailing c is removed
RECURSIVE RStrip(_, _)
RStrip(s, c) == IF EndsWith(s, c) THEN RStrip(Take(s, Len(s) - 1), c) ELSE s

\* s.split(c): the list of the pieces between the c's (never empty)
RECURSIVE Split(_, _)
Split(s, c) ==
    LET i == Find(s, c)
    IN  IF i = 0 THEN <<s>> ELSE <<Take(s, i - 1)>> \o Split(Drop(s, i), c)

\* c.join(parts)
RECURSIVE Join(_, _)
Join(parts, c) ==
    IF Len(parts) = 0 THEN <<>>
    ELSE IF Len(parts) = 1 THEN parts[1]
    ELSE parts[1] \o <<c>> \o Join(Tail(parts), c)

\* s.lower(): the tokens written in upper case, and their lower case
UpperTokens == {".PDF", "HTTPS"}

LowerToken(t) == IF t = ".PDF" THEN ".pdf" ELSE IF t = "HTTPS" THEN "https" ELSE t

Lower(s) == [i \in 1..Len(s) |-> LowerToken(s[i])]

(***************************************************************************)
(* urllib.parse, as crawler.py uses it (urljoin, urlparse, urldefrag).       *)
(***************************************************************************)
\* the tokens made of scheme characters only (letters, digits, "+", "-", ".")
SchemeTokens == {"https", "http", "mailto", "a.test", "b.test", "x", "y", ".pdf", ".PDF", "HTTPS"}

\* the tokens whose first character is a letter
AlphaTokens == SchemeTokens \ {".pdf", ".PDF"}

\* urllib.parse.uses_relative and uses_netloc, among the schemes of the model
UsesRelative == {<<>>, <<"http">>, <<"https">>}

UsesNetloc == {<<>>, <<"http">>, <<"https">>}

\* urlsplit, the scheme: i is url.find(':') + 1; the URL has a scheme when the text
\* before the first ":" starts with a letter and holds scheme characters only
HasScheme(url, i) ==
    /\ i > 1
    /\ url[1] \in AlphaTokens
    /\ \A k \in 1..(i - 1) : url[k] \in SchemeTokens

\* the position of the ":" that ends the scheme, 0 for a URL without scheme
SchemeEndAt(url, i) == IF HasScheme(url, i) THEN i ELSE 0

SchemeEnd(url) == SchemeEndAt(url, Find(url, ":"))

\* _splitnetloc: d is the first of "/", "?", "#" after the leading "//" (0: none);
\* the position of the last token of the netloc
NetlocEndAt(r, d) == IF d = 0 THEN Len(r) ELSE d + 1

\* 0 when the text after the scheme does not start with "//"
NetlocEnd(r) ==
    IF Len(r) >= 2 /\ r[1] = "/" /\ r[2] = "/"
    THEN NetlocEndAt(r, FindAny(Drop(r, 2), {"/", "?", "#"}))
    ELSE 0

\* urlsplit, the result: q is the position of the first "?" before the fragment;
\* err stands for ValueError("Invalid IPv6 URL")
SplitResult(scheme, netloc, r, q, fragment) ==
    [ err      |-> Has(netloc, "[") # Has(netloc, "]"),
      scheme   |-> scheme,
      netloc   |-> netloc,
      path     |-> IF q > 0 THEN Take(r, q - 1) ELSE r,
      query    |-> IF q > 0 THEN Drop(r, q) ELSE <<>>,
      fragment |-> fragment ]

\* url.split('?', 1)
SplitQuery(scheme, netloc, r, fragment) ==
    The({ SplitResult(scheme, netloc, r, q, fragment) : q \in {Find(r, "?")} })

\* url.split('#', 1): h is the position of the first "#" after the netloc
SplitFragment(scheme, netloc, r, h) ==
    The({ SplitQuery(scheme, netloc, rest, IF h > 0 THEN Drop(r, h) ELSE <<>>)
          : rest \in {IF h > 0 THEN Take(r, h - 1) ELSE r} })

\* what follows the netloc
AfterNetloc(scheme, netloc, rest) ==
    The({ SplitFragment(scheme, netloc, rest, h) : h \in {Find(rest, "#")} })

\* e is the position of the last token of the netloc in r, 0 without netloc
SplitNetloc(scheme, r, e) ==
    The({ AfterNetloc(scheme, SubSeq(r, 3, e), rest) : rest \in {Drop(r, e)} })

\* what follows the scheme
AfterScheme(scheme, r) == The({ SplitNetloc(scheme, r, e) : e \in {NetlocEnd(r)} })

\* i is the position of the ":" that ends the scheme, 0 without scheme
SplitScheme(url, dscheme, i) ==
    The({ AfterScheme(IF i > 0 THEN Lower(Take(url, i - 1)) ELSE dscheme, r)
          : r \in {Drop(url, i)} })

\* urlsplit after url.find(':')
SplitUrl(url, dscheme) == The({ SplitScheme(url, dscheme, i) : i \in {SchemeEnd(url)} })

\* urlsplit(url, scheme)
UrlSplit(url, dscheme) == The({ SplitUrl(u, dscheme) : u \in {url} })

\* urlparse(url): the model's alphabet has no ";", so params is always empty
UrlParse(url) == UrlSplit(url, <<>>)

\* urlunsplit: "//" + netloc + path when there is a netloc, or a scheme that uses one
WithNetloc(scheme, netloc, path) ==
    IF \/ netloc # <<>>
       \/ /\ scheme # <<>>
          /\ scheme \in UsesNetloc
          /\ ~(Len(path) >= 2 /\ path[1] = "/" /\ path[2] = "/")
    THEN <<"/", "/">> \o netloc
           \o (IF path # <<>> /\ path[1] # "/" THEN <<"/">> ELSE <<>>) \o path
    ELSE path

\* scheme + ':' in front, when there is a scheme
SchemePrefix(scheme) == IF scheme # <<>> THEN scheme \o <<":">> ELSE <<>>

\* '?' + query behind, when there is a query
QuerySuffix(query) == IF query # <<>> THEN <<"?">> \o query ELSE <<>>

\* '#' + fragment behind, when there is a fragment
FragmentSuffix(fragment) == IF fragment # <<>> THEN <<"#">> \o fragment ELSE <<>>

\* urlunsplit((scheme, netloc, path, query, fragment))
UrlUnsplit(scheme, netloc, path, query, fragment) ==
    SchemePrefix(scheme) \o WithNetloc(scheme, netloc, path)
        \o QuerySuffix(query) \o FragmentSuffix(fragment)

\* segments[1:-1] = filter(None, segments[1:-1])
DropEmptyMiddle(segs) ==
    IF Len(segs) <= 2 THEN segs
    ELSE <<segs[1]>> \o SelectSeq(SubSeq(segs, 2, Len(segs) - 1), LAMBDA g : g # <<>>)
           \o <<segs[Len(segs)]>>

\* base_parts = bpath.split('/'), without its last item unless that is empty
BaseDir(base_parts) ==
    IF base_parts[Len(base_parts)] # <<>>
    THEN SubSeq(base_parts, 1, Len(base_parts) - 1)
    ELSE base_parts

\* segments = base_parts + path.split('/'), its empty middle items filtered out
Resolved(base_parts, path) ==
    The({ DropEmptyMiddle(segs) : segs \in {BaseDir(base_parts) \o Split(path, "/")} })

\* the segments of the joined path; the model's alphabet has no "." and ".."
Segments(bpath, path) ==
    IF path[1] = "/"
    THEN Split(path, "/")
    ELSE The({ Resolved(base_parts, path) : base_parts \in {Split(bpath, "/")} })

\* '/'.join(resolved_path) or '/'
PathOrRoot(joined) == IF joined = <<>> THEN <<"/">> ELSE joined

\* the joined path
JoinedPath(bpath, path) ==
    The({ PathOrRoot(joined) : joined \in {Join(Segments(bpath, path), "/")} })

\* urljoin after both arguments are parsed
JoinParsed(url, b, p) ==
    IF p.scheme # b.scheme \/ p.scheme \notin UsesRelative THEN url
    ELSE IF p.scheme \in UsesNetloc /\ p.netloc # <<>>
         THEN UrlUnsplit(p.scheme, p.netloc, p.path, p.query, p.fragment)
    ELSE IF p.path = <<>>
         THEN UrlUnsplit(p.scheme, b.netloc, b.path,
                         IF p.query = <<>> THEN b.query ELSE p.query, p.fragment)
    ELSE The({ UrlUnsplit(p.scheme, b.netloc, path, p.query, p.fragment)
               : path \in {JoinedPath(b.path, p.path)} })

\* urlparse(url, bscheme)
ParseWithBase(url, b) == The({ JoinParsed(url, b, p) : p \in {UrlSplit(url, b.scheme)} })

\* urljoin(base, url)
UrlJoin(base, url) ==
    IF base = <<>> THEN url
    ELSE IF url = <<>> THEN base
    ELSE The({ ParseWithBase(url, b) : b \in {UrlSplit(base, <<>>)} })

\* urljoin raises what urlparse raises for either argument
UrlJoinRaises(base, url) ==
    base # <<>> /\ url # <<>> /\ (UrlParse(base).err \/ UrlParse(url).err)

\* urlunparse of the parsed URL without its fragment
Unfragmented(p) == UrlUnsplit(p.scheme, p.netloc, p.path, p.query, <<>>)

\* urldefrag(url)[0]
UrlDefrag(url) ==
    IF Has(url, "#") THEN The({ Unfragmented(p) : p \in {UrlParse(url)} }) ELSE url

(***************************************************************************)
(* Crawler.normalize_url and Crawler.should_crawl_url.                        *)
(***************************************************************************)
\* lines 118-122: the trailing slashes go, unless the URL is the base with one slash
StripTrailingSlash(normalized_url, base_url) ==
    IF EndsWith(normalized_url, "/") /\ normalized_url # RStrip(base_url, "/") \o <<"/">>
    THEN RStrip(normalized_url, "/")
    ELSE normalized_url

\* lines 116-122, on the absolute URL
Defragmented(absolute_url, base_url) ==
    The({ StripTrailingSlash(normalized_url, base_url)
          : normalized_url \in {UrlDefrag(absolute_url)} })

\* normalize_url(url, base_url)
normalize_url(url, base_url) ==
    The({ Defragmented(absolute_url, base_url)
          : absolute_url \in {UrlJoin(base_url, url)} })

\* urldefrag parses a URL that holds a "#"
DefragRaises(absolute_url) == Has(absolute_url, "#") /\ UrlParse(absolute_url).err

\* normalize_url raises what urljoin and urldefrag raise
normalize_url_raises(url, base_url) ==
    \/ UrlJoinRaises(base_url, url)
    \/ The({ DefragRaises(absolute_url) : absolute_url \in {UrlJoin(base_url, url)} })

skip_extensions == {".pdf", ".jpg", ".jpeg", ".png", ".gif", ".zip", ".doc", ".docx", ".mp4", ".mp3"}

\* lines 138-151 alone: the scheme of the URL is not looked at
ShouldCrawlAnyScheme(url, parsed, base_domain) ==
    IF parsed.netloc # <<>> /\ parsed.netloc # base_domain THEN FALSE
    ELSE IF \E ext \in skip_extensions : EndsWith(Lower(url), ext) THEN FALSE
    ELSE TRUE

\* lines 135-151, on the parsed URL
ShouldCrawlParsed(url, parsed, base_domain) ==
    IF parsed.scheme = <<>> \/ parsed.scheme \notin {<<"http">>, <<"https">>} THEN FALSE
    ELSE IF parsed.netloc # <<>> /\ parsed.netloc # base_domain THEN FALSE
    ELSE IF \E ext \in skip_extensions : EndsWith(Lower(url), ext) THEN FALSE
    ELSE IF parsed.scheme \in {<<"mailto">>, <<"tel">>, <<"javascript">>} THEN FALSE
    ELSE TRUE

\* should_crawl_url(url, base_domain); an exception of urlparse gives False
should_crawl_url(url, base_domain) ==
    The({ IF parsed.err THEN FALSE ELSE ShouldCrawlParsed(url, parsed, base_domain)
          : parsed \in {UrlParse(url)} })

(***************************************************************************)
(* backend/utils/utils.py: hashing and diffing of cleaned text.               *)
(***************************************************************************)
\* hash_content: the SHA-256 digest of a text; two texts with one digest are out of
\* the model's reach, a digest stands for its text
hash_content(content) == <<"sha256">> \o content

\* the list without its last element when that is the empty line
DropLastEmpty(parts) ==
    IF parts[Len(parts)] = <<>> THEN Take(parts, Len(parts) - 1) ELSE parts

\* str.splitlines(): a line end at the end of the text opens no further line
splitlines(s) == IF s = <<>> THEN <<>> ELSE DropLastEmpty(Split(s, "\n"))

\* difflib: the length of the common run of a and b that starts at a[i], b[j]
RECURSIVE MatchLen(_, _, _, _)
MatchLen(a, b, i, j) ==
    IF i > Len(a) \/ j > Len(b) THEN 0
    ELSE IF a[i] # b[j] THEN 0
    ELSE 1 + MatchLen(a, b, i + 1, j + 1)

\* SequenceMatcher.find_longest_match prefers m to n: longer, then earlier in a,
\* then earlier in b
Prefers(a, b, m, n) ==
    \/ MatchLen(a, b, m[1], m[2]) > MatchLen(a, b, n[1], n[2])
    \/ /\ MatchLen(a, b, m[1], m[2]) = MatchLen(a, b, n[1], n[2])
       /\ (m[1] < n[1] \/ (m[1] = n[1] /\ m[2] <= n[2]))

LongestMatch(a, b) ==
    CHOOSE m \in (1..Len(a)) \X (1..Len(b)) :
        \A n \in (1..Len(a)) \X (1..Len(b)) : Prefers(a, b, m, n)

\* the lines of a hunk that carry one marker
Marked(c, lines) == [i \in 1..Len(lines) |-> <<c>> \o lines[i]]

\* the body of the hunk of unified_diff: get_matching_blocks splits at the longest
\* match and recurses to its left and right; a stretch without a match is written
\* as its "-" lines followed by its "+" lines
RECURSIVE DiffLines(_, _)
AroundMatch(a, b, m, k) ==
    DiffLines(Take(a, m[1] - 1), Take(b, m[2] - 1))
        \o Marked(" ", SubSeq(a, m[1], m[1] + k - 1))
        \o DiffLines(Drop(a, m[1] + k - 1), Drop(b, m[2] + k - 1))

DiffLines(a, b) ==
    IF \A i \in 1..Len(a), j \in 1..Len(b) : a[i] # b[j]
    THEN Marked("-", a) \o Marked("+", b)
    ELSE AroundMatch(a, b, LongestMatch(a, b),
                     MatchLen(a, b, LongestMatch(a, b)[1], LongestMatch(a, b)[2]))

\* difflib.unified_diff(a, b, fromfile="old", tofile="new", lineterm=""): nothing for
\* equal lists; else the two file lines, the hunk line (its ranges are not modelled)
\* and the hunk.  Lists of up to three lines fit one hunk with no context cut off.
unified_diff(a, b) ==
    IF a = b THEN <<>>
    ELSE << <<"--- old">>, <<"+++ new">>, <<"@@">> >> \o DiffLines(a, b)

\* a diff that lists the lines of the new text only
diff_text_added_only(old, new) ==
    IF splitlines(old) = splitlines(new) THEN <<>>
    ELSE Join(<< <<"--- old">>, <<"+++ new">>, <<"@@">> >> \o Marked("+", splitlines(new)),
              "\n")

\* diff_text, lines 55-66
diff_text(old, new) == Join(unified_diff(splitlines(old), splitlines(new)), "\n")

\* a detect_changes that takes changed from the diff
detect_changes_by_diff(old, new) ==
    [ old_hash |-> hash_content(old),
      new_hash |-> hash_content(new),
      diff     |-> diff_text(old, new),
      changed  |-> diff_text(old, new) # <<>> ]

\* detect_changes, lines 84-92
detect_changes(old, new) ==
    [ old_hash |-> hash_content(old),
      new_hash |-> hash_content(new),
      diff     |-> diff_text(old, new),
      changed  |-> hash_content(old) # hash_content(new) ]

\* the longest text detect_changes is given
MaxTextLen == 2

TextTokens == {"a", "b", "\n"}

Texts == UNION { [1..n -> TextTokens] : n \in 0..MaxTextLen }

(***************************************************************************)
(* The inputs of a crawl: start URLs, the hrefs a page may carry, the html   *)
(* a page may render to.                                                      *)
(***************************************************************************)
\* the largest max_pages a call is given
MaxPages == 3

Root == <<"https", ":", "/", "/", "a.test", "/">>

RootNoSlash == <<"https", ":", "/", "/", "a.test">>

\* an unbalanced "[" in the host: urlparse raises ValueError("Invalid IPv6 URL")
Malformed == <<"https", ":", "/", "/", "[", "a.test", "/">>

StartUrls == {Root, RootNoSlash, Malformed}

PageX == <<"https", ":", "/", "/", "a.test", "/", "x">>

PageY == <<"https", ":", "/", "/", "a.test", "/", "y">>

\* the hrefs of the site's anchors
HrefX == <<"/", "x">>

HrefY == <<"/", "y">>

\* back to the site root
HrefRoot == <<"/">>

\* /x written with a trailing slash
HrefXSlash == <<"/", "x", "/">>

\* a fragment of the page itself
HrefFragment == <<"#", "x">>

\* a page of another host
HrefOtherHost == <<"https", ":", "/", "/", "b.test", "/", "x">>

\* another scheme than the site's, and no "//host"
HrefNoHost == <<"http", ":", "/", "x">>

HrefMailto == <<"mailto", ":", "x">>

\* page.goto: the page a URL names; a URL with a host and no path names the host's "/"
PageOfParsed(u, p) ==
    IF p.netloc # <<>> /\ p.path = <<>>
    THEN UrlUnsplit(p.scheme, p.netloc, <<"/">>, p.query, <<>>)
    ELSE u

PageOf(u) == The({ PageOfParsed(u, p) : p \in {UrlParse(u)} })

\* page.query_selector_all('a[href]'): the anchor lists, in document order, that the
\* page which a URL names may carry
AnchorsOfPage(page) ==
    IF page = Root
    THEN { <<>>, <<HrefX>>, <<HrefX, HrefY>>, <<HrefOtherHost, HrefMailto>>,
           <<HrefNoHost, HrefFragment>>, <<HrefMailto>> }
    ELSE IF page = PageX
    THEN { <<>>, <<HrefRoot>>, <<HrefXSlash, HrefY>> }
    ELSE IF page = PageY
    THEN { <<>>, <<HrefX, HrefRoot>> }
    ELSE { <<>> }

Anchors(u) == The({ AnchorsOfPage(page) : page \in {PageOf(u)} })

\* the visited_urls argument: None (a fresh set) or a set the caller seeds
Seeds == { {}, {PageX} }

\* what one page visit runs into: an exception of new_page, of goto, of the scroll
\* handling, of page.content or clean_and_hash, of query_selector_all (after the
\* text was stored), of page.close (after the links were processed), or none
Outcomes == {"new_page_error", "goto_error", "scroll_error", "extract_error", "links_error",
             "close_error", "ok"}

\* the outcomes that raise before results[normalized_url] is assigned
FailsBeforeStore == {"new_page_error", "goto_error", "scroll_error", "extract_error"}

\* the outcomes that raise before or in the link extraction
FailsBeforeLinks == FailsBeforeStore \cup {"links_error"}

\* whether the page of a visit is open when the visit is over: new_page opened none
\* when it raised; page.close() of line 249 is reached only when nothing raised before
\* it, and when it raises itself the page may be closed or not
LeftOpen(outcome) ==
    IF outcome \in {"new_page_error", "ok"} THEN {FALSE}
    ELSE IF outcome = "close_error" THEN BOOLEAN
    ELSE {TRUE}

\* the open pages after a visit
PagesAfter(pages, normalized_url, left_open) ==
    IF left_open THEN pages \cup {normalized_url} ELSE pages

(***************************************************************************)
(* The state of one Crawler and of the crawl_website call it runs.           *)
(***************************************************************************)
VARIABLES
    pc,             \* "idle", "loop" (in the while loop), "done" (returned), "raised"
    raised,         \* the exception that left crawl_website: "none", "ValueError", "init"
    browser,        \* self.browser: "none" or "open"
    url,            \* the start URL
    max_pages,
    base_domain,
    visited_urls,
    seed,           \* history: visited_urls as the caller passed it
    results,        \* normalized URL -> cleaned text
    urls_to_visit,  \* the frontier
    log,            \* history: the page visits, <<normalized URL, outcome>>, in order
    discovered,     \* history: the links of fetched pages that passed should_crawl_url
    open_pages,     \* the URLs whose page new_page opened and nothing closed
    edges,          \* history: <<page, link>> for the links counted in discovered
    skipped         \* history: the links of fetched pages that should_crawl_url rejected

crawlVars == <<pc, raised, browser, url, max_pages, base_domain, visited_urls, seed,
               results, urls_to_visit, log, discovered, open_pages, edges, skipped>>

(***************************************************************************)
(* The state of the scroll handling of one page visit.                       *)
(***************************************************************************)
VARIABLES
    sphase,          \* "Idle", "Probing", "Scrolling", "Stable" (the handling returned), "Raised"
    scroll,          \* the scroll argument
    smart_scroll,    \* the smart_scroll argument
    initial_height,  \* line 211
    last_height,     \* infinite_scroll: the height of the previous measurement
    max_scrolls,     \* infinite_scroll: the iteration cap of the running loop
    loop_scrolls,    \* infinite_scroll: the scrollTo calls of the loop so far
    probe_scrolls,   \* history: the scrollTo calls of the probe (line 212)
    probed_height,   \* history: new_height of line 214, the height after the probe
    converged        \* history: the loop met two equal consecutive heights

scrollVars == <<sphase, scroll, smart_scroll, initial_height, last_height, max_scrolls,
                loop_scrolls, probe_scrolls, probed_height, converged>>

(***************************************************************************)
(* The state of the tracking agent (AgentState) and of the Snapshots         *)
(* collection of the database.                                               *)
(***************************************************************************)
VARIABLES
    stage,              \* state["stage"]; "idle" before run_weekly_tracking is called
    website_snapshots,  \* state["website_snapshots"]
    app_updates,        \* state["app_updates"]
    detected_changes,   \* state["detected_changes"]
    errors,             \* state["errors"]
    snapshots,          \* the documents of the Snapshots collection, in insertion order
    observed            \* history: the snapshots add_snapshot stored, as the crawl gave them

agentVars == <<stage, website_snapshots, app_updates, detected_changes, errors, snapshots,
               observed>>

(***************************************************************************)
(* One call of utils.detect_changes.                                         *)
(***************************************************************************)
VARIABLES
    old_text,   \* the argument old_text
    new_text,   \* the argument new_text
    returned,   \* detect_changes has returned
    analysis    \* the record it returned

diffVars == <<old_text, new_text, returned, analysis>>

(***************************************************************************)
(* One call of Crawler.normalize_url, and a second call on its result.       *)
(***************************************************************************)
VARIABLES
    npc,               \* "idle", "once" (normalize_url returned), "twice", "raised"
    raw_url,           \* the argument url
    base_url,          \* the argument base_url
    normalized_once,   \* normalize_url(url, base_url)
    normalized_twice   \* normalize_url of that result, with the same base_url

normVars == <<npc, raw_url, base_url, normalized_once, normalized_twice>>

(***************************************************************************)
(* Calls of utils.clean_and_hash: on an html text, on the same text again,   *)
(* and on a second html text.                                                *)
(***************************************************************************)
VARIABLES
    cpc,       \* "idle", "first", "repeat", "other": the calls that returned
    html,      \* the argument of the first and of the second call
    variant,   \* the argument of the third call
    first,     \* <<cleaned, hashed>> of the first call
    repeat,    \* <<cleaned, hashed>> of the second call
    other      \* <<cleaned, hashed>> of the third call

cleanVars == <<cpc, html, variant, first, repeat, other>>

(***************************************************************************)
(* CRAWLER, the Crawler all tools share (crawler.py line 291), and the crawl  *)
(* jobs that run on it at the same time.  A job runs from one await to the    *)
(* next in one step.                                                          *)
(***************************************************************************)
VARIABLES
    playwrights,         \* the Playwright instances started: TRUE while running
    browsers,            \* the browsers launched: [playwright, closed]
    crawler_playwright,  \* CRAWLER.playwright: an index of playwrights, 0 when unset
    crawler_browser,     \* CRAWLER.browser: an index of browsers, 0 for None
    crawler_context,     \* CRAWLER.context: the browser of the context, 0 for None
    job_kind,            \* per job: "website" (crawl_website), "pages" (crawl_pages), "none"
    job_pc,              \* per job: where it is
    job_urls,            \* per job: the URLs it has still to visit, in order
    job_asked,           \* history, per job: the URLs it was started for
    job_page,            \* per job: the browser of the page it opened last
    job_results,         \* per job: the keys of its results
    job_errors,          \* per job: the page visits that raised
    job_return           \* per job: "none", "results", "error" (what the tool returned)

jobVars == <<playwrights, browsers, crawler_playwright, crawler_browser, crawler_context,
             job_kind, job_pc, job_urls, job_asked, job_page, job_results, job_errors,
             job_return>>

(***************************************************************************)
(* One call of Crawler.should_crawl_url.                                      *)
(***************************************************************************)
VARIABLES
    spc,           \* "idle", "done" (should_crawl_url returned)
    checked_url,   \* the argument url
    scope_domain,  \* the argument base_domain
    verdict        \* what should_crawl_url returned

checkVars == <<spc, checked_url, scope_domain, verdict>>

(***************************************************************************)
(* One run of the tracking workflow (CompetitorTrackingAgent.graph).          *)
(***************************************************************************)
VARIABLES
    flow_node,      \* the node that ran last; "START" before the first, "END" at the end
    flow_stage,     \* state["stage"]
    flow_errors,    \* state["errors"], each message by the node that appended it
    flow_path,      \* history: the nodes that ran, in order
    error_notified  \* the error notification of handle_errors was sent

flowVars == <<flow_node, flow_stage, flow_errors, flow_path, error_notified>>

(***************************************************************************)
(* The tracking endpoints of the API and the tracking runs they start.        *)
(***************************************************************************)
VARIABLES
    tracking_status,  \* tracking_status["status"]: "idle" or "running"
    in_flight,        \* origin -> the tracking runs of that origin that have not finished
    last_response,    \* the status code of the last POST /tracking/start: 0, 200, 409
    api_calls,        \* the API calls made so far
    finished          \* the tracking runs that finished, by result

apiVars == <<tracking_status, in_flight, last_response, api_calls, finished>>

vars == <<crawlVars, scrollVars, agentVars, diffVars, normVars, cleanVars, jobVars,
          checkVars, flowVars, apiVars>>

\* x in list
InList(list, x) == \E i \in 1..Len(list) : list[i] = x

\* a frontier that takes a new link at its front
PrependLink(link_url, domain, visited, frontier) ==
    IF /\ should_crawl_url(link_url, domain)
       /\ link_url \notin visited
       /\ ~InList(frontier, link_url)
    THEN <<link_url>> \o frontier
    ELSE frontier

\* lines 239-242: the link is queued when it is to be crawled and new
AppendLink(link_url, domain, visited, frontier) ==
    IF /\ should_crawl_url(link_url, domain)
       /\ link_url \notin visited
       /\ ~InList(frontier, link_url)
    THEN Append(frontier, link_url)
    ELSE frontier

\* lines 232-246: one anchor; an empty href and an exception of normalize_url are
\* passed over
ProcessLink(href, normalized_url, domain, visited, frontier) ==
    IF href = <<>> \/ normalize_url_raises(href, normalized_url) THEN frontier
    ELSE The({ AppendLink(link_url, domain, visited, frontier)
               : link_url \in {normalize_url(href, normalized_url)} })

\* lines 231-246: the loop over the anchors of a fetched page
RECURSIVE ProcessLinks(_, _, _, _, _)
ProcessLinks(links, normalized_url, domain, visited, frontier) ==
    IF links = <<>> THEN frontier
    ELSE The({ ProcessLinks(Tail(links), normalized_url, domain, visited, queued)
               : queued \in {ProcessLink(Head(links), normalized_url, domain, visited, frontier)} })

\* a link that reaches should_crawl_url and passes it
Crawlable(href, normalized_url, domain) ==
    /\ href # <<>>
    /\ ~normalize_url_raises(href, normalized_url)
    /\ The({ should_crawl_url(link_url, domain)
             : link_url \in {normalize_url(href, normalized_url)} })

\* a link that reaches should_crawl_url and fails it
Rejected(href, normalized_url, domain) ==
    /\ href # <<>>
    /\ ~normalize_url_raises(href, normalized_url)
    /\ The({ ~should_crawl_url(link_url, domain)
             : link_url \in {normalize_url(href, normalized_url)} })

\* the links of a page that should_crawl_url turns down
RejectedLinks(links, normalized_url, domain) ==
    { normalize_url(links[i], normalized_url) :
        i \in { j \in 1..Len(links) : Rejected(links[j], normalized_url, domain) } }

\* the links of a page that should_crawl_url lets through
CrawlableLinks(links, normalized_url, domain) ==
    { normalize_url(links[i], normalized_url) :
        i \in { j \in 1..Len(links) : Crawlable(links[j], normalized_url, domain) } }

\* the cleaned text clean_and_hash returns for the html of a fetched page
CleanTexts == {<<"a">>, <<"b">>}

EmptyMap == [u \in {} |-> <<>>]

\* results[key] = text
Store(map, key, text) == [u \in DOMAIN map \cup {key} |-> IF u = key THEN text ELSE map[u]]

\* len(results)
NumResults == Cardinality(DOMAIN results)

\* a loop condition that lets one more page in
LoopConditionInclusive == urls_to_visit # <<>> /\ NumResults <= max_pages

\* the loop condition of line 191
LoopCondition == urls_to_visit # <<>> /\ NumResults < max_pages

\* line 193: the front of the frontier, normalized against the start URL
NormalizedHead == normalize_url(Head(urls_to_visit), url)

\* a visited test on the frontier entry as it was queued, not as line 193 normalizes it
QueuedEntryVisited == Head(urls_to_visit) \in visited_urls

\* line 196: the front of the frontier was visited already
AlreadyVisited == NormalizedHead \in visited_urls

(***************************************************************************)
(* crawl_website, lines 180-189: the call.  urlparse(url) of line 185 is     *)
(* outside every try, and so is self.init().                                  *)
(***************************************************************************)
CallRaisesValueError ==
    /\ pc = "idle"
    /\ \E u \in StartUrls, mp \in 0..MaxPages, sd \in Seeds :
        /\ UrlParse(u).err
        /\ url' = u
        /\ max_pages' = mp
        /\ visited_urls' = sd
        /\ seed' = sd
        /\ urls_to_visit' = <<u>>
    /\ results' = EmptyMap
    /\ pc' = "raised"
    /\ raised' = "ValueError"
    /\ UNCHANGED <<browser, base_domain, log, discovered, open_pages, edges, skipped>>
    /\ UNCHANGED <<scrollVars, agentVars, diffVars, normVars, cleanVars, jobVars,
                   checkVars, flowVars, apiVars>>

CallInitFails ==
    /\ pc = "idle"
    /\ browser = "none"
    /\ \E u \in StartUrls, mp \in 0..MaxPages, sd \in Seeds :
        /\ ~UrlParse(u).err
        /\ url' = u
        /\ max_pages' = mp
        /\ visited_urls' = sd
        /\ seed' = sd
        /\ urls_to_visit' = <<u>>
        /\ base_domain' = UrlParse(u).netloc
    /\ results' = EmptyMap
    /\ pc' = "raised"
    /\ raised' = "init"
    /\ UNCHANGED <<browser, log, discovered, open_pages, edges, skipped>>
    /\ UNCHANGED <<scrollVars, agentVars, diffVars, normVars, cleanVars, jobVars,
                   checkVars, flowVars, apiVars>>

CallEntersLoop ==
    /\ pc = "idle"
    /\ \E u \in StartUrls, mp \in 0..MaxPages, sd \in Seeds :
        /\ ~UrlParse(u).err
        /\ url' = u
        /\ max_pages' = mp
        /\ visited_urls' = sd
        /\ seed' = sd
        /\ urls_to_visit' = <<u>>
        /\ base_domain' = UrlParse(u).netloc
    /\ results' = EmptyMap
    /\ browser' = "open"
    /\ pc' = "loop"
    /\ UNCHANGED <<raised, log, discovered, open_pages, edges, skipped>>
    /\ UNCHANGED <<scrollVars, agentVars, diffVars, normVars, cleanVars, jobVars,
                   checkVars, flowVars, apiVars>>

(***************************************************************************)
(* One iteration of the while loop, lines 191-253.                           *)
(***************************************************************************)
\* a skip that leaves the URL on the frontier
SkipKeepsFrontier ==
    /\ pc = "loop"
    /\ LoopCondition
    /\ AlreadyVisited
    /\ UNCHANGED vars

\* lines 192-197: the popped URL is in visited_urls
SkipVisited ==
    /\ pc = "loop"
    /\ LoopCondition
    /\ AlreadyVisited
    /\ urls_to_visit' = Tail(urls_to_visit)
    /\ UNCHANGED <<pc, raised, browser, url, max_pages, base_domain, visited_urls, seed,
                   results, log, discovered, open_pages, edges, skipped>>
    /\ UNCHANGED <<scrollVars, agentVars, diffVars, normVars, cleanVars, jobVars,
                   checkVars, flowVars, apiVars>>

\* a page error that leaves crawl_website instead of being caught at line 251
VisitFailsAborts ==
    /\ pc = "loop"
    /\ LoopCondition
    /\ ~AlreadyVisited
    /\ \E outcome \in FailsBeforeStore :
        /\ log' = Append(log, <<NormalizedHead, outcome>>)
        /\ \E left_open \in LeftOpen(outcome) :
            open_pages' = PagesAfter(open_pages, NormalizedHead, left_open)
    /\ visited_urls' = visited_urls \cup {NormalizedHead}
    /\ urls_to_visit' = Tail(urls_to_visit)
    /\ pc' = "raised"
    /\ raised' = "page"
    /\ UNCHANGED <<browser, url, max_pages, base_domain, seed, results, discovered, edges, skipped>>
    /\ UNCHANGED <<scrollVars, agentVars, diffVars, normVars, cleanVars, jobVars,
                   checkVars, flowVars, apiVars>>

\* a visit that marks its URL visited only once the page is fetched
VisitFailsUnmarked ==
    /\ pc = "loop"
    /\ LoopCondition
    /\ ~AlreadyVisited
    /\ \E outcome \in FailsBeforeStore :
        /\ log' = Append(log, <<NormalizedHead, outcome>>)
        /\ \E left_open \in LeftOpen(outcome) :
            open_pages' = PagesAfter(open_pages, NormalizedHead, left_open)
    /\ urls_to_visit' = Tail(urls_to_visit)
    /\ UNCHANGED <<pc, raised, browser, url, max_pages, base_domain, visited_urls, seed,
                   results, discovered, edges, skipped>>
    /\ UNCHANGED <<scrollVars, agentVars, diffVars, normVars, cleanVars, jobVars,
                   checkVars, flowVars, apiVars>>

\* lines 199-253, an exception before results[normalized_url] is assigned
VisitFails ==
    /\ pc = "loop"
    /\ LoopCondition
    /\ ~AlreadyVisited
    /\ \E outcome \in FailsBeforeStore :
        /\ log' = Append(log, <<NormalizedHead, outcome>>)
        /\ \E left_open \in LeftOpen(outcome) :
            open_pages' = PagesAfter(open_pages, NormalizedHead, left_open)
    /\ visited_urls' = visited_urls \cup {NormalizedHead}
    /\ urls_to_visit' = Tail(urls_to_visit)
    /\ UNCHANGED <<pc, raised, browser, url, max_pages, base_domain, seed, results,
                   discovered, edges, skipped>>
    /\ UNCHANGED <<scrollVars, agentVars, diffVars, normVars, cleanVars, jobVars,
                   checkVars, flowVars, apiVars>>

\* lines 199-253, the text is stored; the anchors are processed unless
\* query_selector_all raises
VisitStores ==
    /\ pc = "loop"
    /\ LoopCondition
    /\ ~AlreadyVisited
    /\ \E normalized_url \in {NormalizedHead} :
        \E outcome \in Outcomes \ FailsBeforeStore, cleaned_text \in CleanTexts,
           links \in Anchors(normalized_url) :
            /\ results' = Store(results, normalized_url, cleaned_text)
            /\ log' = Append(log, <<normalized_url, outcome>>)
            /\ visited_urls' = visited_urls \cup {normalized_url}
            /\ \E left_open \in LeftOpen(outcome) :
                open_pages' = PagesAfter(open_pages, normalized_url, left_open)
            /\ IF outcome \in FailsBeforeLinks
               THEN /\ urls_to_visit' = Tail(urls_to_visit)
                    /\ UNCHANGED <<discovered, edges, skipped>>
               ELSE /\ urls_to_visit' = ProcessLinks(links, normalized_url, base_domain,
                                                     visited_urls \cup {normalized_url},
                                                     Tail(urls_to_visit))
                    /\ discovered' = discovered
                                       \cup CrawlableLinks(links, normalized_url, base_domain)
                    /\ edges' = edges
                                  \cup ({normalized_url}
                                        \X CrawlableLinks(links, normalized_url, base_domain))
                    /\ skipped' = skipped
                                    \cup RejectedLinks(links, normalized_url, base_domain)
    /\ UNCHANGED <<pc, raised, browser, url, max_pages, base_domain, seed>>
    /\ UNCHANGED <<scrollVars, agentVars, diffVars, normVars, cleanVars, jobVars,
                   checkVars, flowVars, apiVars>>

\* line 255: the loop condition is false
Return ==
    /\ pc = "loop"
    /\ ~LoopCondition
    /\ pc' = "done"
    /\ UNCHANGED <<raised, browser, url, max_pages, base_domain, visited_urls, seed,
                   results, urls_to_visit, log, discovered, open_pages, edges, skipped>>
    /\ UNCHANGED <<scrollVars, agentVars, diffVars, normVars, cleanVars, jobVars,
                   checkVars, flowVars, apiVars>>

(***************************************************************************)
(* The scroll handling of one page visit: crawl_website lines 207-220 and    *)
(* infinite_scroll lines 80-100.  A step is one scrollTo with the height      *)
(* measurement that follows it; the page reports any height.                  *)
(***************************************************************************)
\* the largest scroll height a page reports
MaxHeight == 2

\* max_scrolls of infinite_scroll: its default, and what the smart scroll passes
DefaultMaxScrolls == 50

SmartMaxScrolls == 10

Heights == 0..MaxHeight

\* lines 208-211 and 219-220 with 91: the page is loaded and the handling starts
ScrollBegin ==
    /\ sphase = "Idle"
    /\ \E h \in Heights :
        IF ~(scroll \/ smart_scroll)
        THEN /\ sphase' = "Stable"
             /\ UNCHANGED <<initial_height, last_height, max_scrolls>>
        ELSE IF smart_scroll
        THEN /\ sphase' = "Probing"
             /\ initial_height' = h
             /\ UNCHANGED <<last_height, max_scrolls>>
        ELSE /\ sphase' = "Scrolling"
             /\ last_height' = h
             /\ max_scrolls' = DefaultMaxScrolls
             /\ UNCHANGED initial_height
    /\ UNCHANGED <<scroll, smart_scroll, loop_scrolls, probe_scrolls, probed_height,
                   converged>>
    /\ UNCHANGED <<crawlVars, agentVars, diffVars, normVars, cleanVars, jobVars,
                   checkVars, flowVars, apiVars>>

\* a probe that also takes a page whose height stayed the same for a growing one
ProbeOnEqual ==
    /\ sphase = "Probing"
    /\ \E new_height \in Heights, h \in Heights :
        /\ probed_height' = new_height
        /\ IF new_height >= initial_height
           THEN /\ sphase' = "Scrolling"
                /\ last_height' = h
                /\ max_scrolls' = SmartMaxScrolls
           ELSE /\ sphase' = "Stable"
                /\ UNCHANGED <<last_height, max_scrolls>>
    /\ probe_scrolls' = probe_scrolls + 1
    /\ UNCHANGED <<scroll, smart_scroll, initial_height, loop_scrolls, converged>>
    /\ UNCHANGED <<crawlVars, agentVars, diffVars, normVars, cleanVars, jobVars,
                   checkVars, flowVars, apiVars>>

\* lines 212-218 with 91: the probe scroll, and the entry of infinite_scroll
Probe ==
    /\ sphase = "Probing"
    /\ \E new_height \in Heights, h \in Heights :
        /\ probed_height' = new_height
        /\ IF new_height > initial_height
           THEN /\ sphase' = "Scrolling"
                /\ last_height' = h
                /\ max_scrolls' = SmartMaxScrolls
           ELSE /\ sphase' = "Stable"
                /\ UNCHANGED <<last_height, max_scrolls>>
    /\ probe_scrolls' = probe_scrolls + 1
    /\ UNCHANGED <<scroll, smart_scroll, initial_height, loop_scrolls, converged>>
    /\ UNCHANGED <<crawlVars, agentVars, diffVars, normVars, cleanVars, jobVars,
                   checkVars, flowVars, apiVars>>

\* a loop that ends at its cap only, whatever the heights
LoopEndsAtCap(done, new_height) == done = max_scrolls

\* a loop that runs one iteration past max_scrolls
LoopEndsLate(done, new_height) == new_height = last_height \/ done = max_scrolls + 1

\* the for loop of line 92 ends after this iteration
LoopEnds(done, new_height) == new_height = last_height \/ done = max_scrolls

\* lines 92-100: one iteration of the loop of infinite_scroll
ScrollStep ==
    /\ sphase = "Scrolling"
    /\ \E new_height \in Heights :
        /\ sphase' = IF LoopEnds(loop_scrolls + 1, new_height) THEN "Stable" ELSE "Scrolling"
        /\ converged' = (new_height = last_height)
        /\ last_height' = IF new_height = last_height THEN last_height ELSE new_height
    /\ loop_scrolls' = loop_scrolls + 1
    /\ UNCHANGED <<scroll, smart_scroll, initial_height, max_scrolls, probe_scrolls,
                   probed_height>>
    /\ UNCHANGED <<crawlVars, agentVars, diffVars, normVars, cleanVars, jobVars,
                   checkVars, flowVars, apiVars>>

\* page.evaluate raises: the exception leaves the scroll handling
ScrollRaises ==
    /\ sphase \in {"Idle", "Probing", "Scrolling"}
    /\ scroll \/ smart_scroll
    /\ sphase' = "Raised"
    /\ UNCHANGED <<scroll, smart_scroll, initial_height, last_height, max_scrolls,
                   loop_scrolls, probe_scrolls, probed_height, converged>>
    /\ UNCHANGED <<crawlVars, agentVars, diffVars, normVars, cleanVars, jobVars,
                   checkVars, flowVars, apiVars>>

(***************************************************************************)
(* utils.detect_changes, called on a pair of texts.                           *)
(***************************************************************************)
NoAnalysis == [old_hash |-> <<>>, new_hash |-> <<>>, diff |-> <<>>, changed |-> FALSE]

CallDetectChanges ==
    /\ ~returned
    /\ returned' = TRUE
    /\ analysis' = detect_changes(old_text, new_text)
    /\ UNCHANGED <<old_text, new_text>>
    /\ UNCHANGED <<crawlVars, scrollVars, agentVars, normVars, cleanVars, jobVars,
                   checkVars, flowVars, apiVars>>

(***************************************************************************)
(* Crawl jobs on the shared CRAWLER: WebsiteCrawlTool.run (crawl_website) and *)
(* LinkedInCrawlTool.run (crawl_pages).  The pages of a job load without      *)
(* error as long as their browser runs.                                       *)
(***************************************************************************)
\* the most URLs one job visits
MaxJobUrls == 2

Jobs == {1, 2}

\* a browser that is not closed, of a Playwright instance that is not stopped
Alive(b) == b # 0 /\ ~browsers[b].closed /\ playwrights[browsers[b].playwright]

OtherJobVars == <<job_kind, job_asked>>

\* the exception leaves crawl_website or crawl_pages; the tool returns {"error": ...}
\* (website_crawl_tool.py line 58, linkedin_crawl_tool.py line 46)
ToolReturnsError(j) ==
    /\ job_pc' = [job_pc EXCEPT ![j] = "done"]
    /\ job_return' = [job_return EXCEPT ![j] = "error"]

\* crawl_website line 188: init only when self.browser is unset; crawl_pages line 266:
\* init always
JobStart(j) ==
    /\ job_pc[j] = "idle"
    /\ job_kind[j] # "none"
    /\ job_pc' = [job_pc EXCEPT ![j] =
                    IF job_kind[j] = "website" /\ crawler_browser # 0
                    THEN "loop" ELSE "init_start"]
    /\ UNCHANGED <<playwrights, browsers, crawler_playwright, crawler_browser,
                   crawler_context, job_urls, job_page, job_results, job_errors,
                   job_return, OtherJobVars>>
    /\ UNCHANGED <<crawlVars, scrollVars, agentVars, diffVars, normVars, cleanVars,
                   checkVars, flowVars, apiVars>>

\* init, line 29
InitStart(j) ==
    /\ job_pc[j] = "init_start"
    /\ playwrights' = Append(playwrights, TRUE)
    /\ crawler_playwright' = Len(playwrights) + 1
    /\ job_pc' = [job_pc EXCEPT ![j] = "init_launch"]
    /\ UNCHANGED <<browsers, crawler_browser, crawler_context, job_urls, job_page,
                   job_results, job_errors, job_return, OtherJobVars>>
    /\ UNCHANGED <<crawlVars, scrollVars, agentVars, diffVars, normVars, cleanVars,
                   checkVars, flowVars, apiVars>>

\* init, line 30: launch on self.playwright as it is now
InitLaunch(j) ==
    /\ job_pc[j] = "init_launch"
    /\ IF playwrights[crawler_playwright]
       THEN /\ browsers' = Append(browsers,
                                  [playwright |-> crawler_playwright, closed |-> FALSE])
            /\ crawler_browser' = Len(browsers) + 1
            /\ job_pc' = [job_pc EXCEPT ![j] = "init_context"]
            /\ UNCHANGED job_return
       ELSE /\ ToolReturnsError(j)
            /\ UNCHANGED <<browsers, crawler_browser>>
    /\ UNCHANGED <<playwrights, crawler_playwright, crawler_context, job_urls, job_page,
                   job_results, job_errors, OtherJobVars>>
    /\ UNCHANGED <<crawlVars, scrollVars, agentVars, diffVars, normVars, cleanVars,
                   checkVars, flowVars, apiVars>>

\* init, line 31: a context of self.browser as it is now
InitContext(j) ==
    /\ job_pc[j] = "init_context"
    /\ IF Alive(crawler_browser)
       THEN /\ crawler_context' = crawler_browser
            /\ job_pc' = [job_pc EXCEPT ![j] = "loop"]
            /\ UNCHANGED job_return
       ELSE /\ ToolReturnsError(j)
            /\ UNCHANGED crawler_context
    /\ UNCHANGED <<playwrights, browsers, crawler_playwright, crawler_browser, job_urls,
                   job_page, job_results, job_errors, OtherJobVars>>
    /\ UNCHANGED <<crawlVars, scrollVars, agentVars, diffVars, normVars, cleanVars,
                   checkVars, flowVars, apiVars>>

\* a page visit raised: crawl_website catches it and goes on with the next URL (lines
\* 251-253); crawl_pages has no try, the exception leaves it
VisitRaises(j) ==
    /\ job_errors' = [job_errors EXCEPT ![j] = @ + 1]
    /\ IF job_kind[j] = "website"
       THEN /\ job_urls' = [job_urls EXCEPT ![j] = Tail(@)]
            /\ job_pc' = [job_pc EXCEPT ![j] = "loop"]
            /\ UNCHANGED job_return
       ELSE /\ ToolReturnsError(j)
            /\ UNCHANGED job_urls

\* new_page, lines 36-42, on self.context as it is now
NewPage(j) ==
    /\ job_pc[j] = "loop"
    /\ job_urls[j] # <<>>
    /\ IF Alive(crawler_context)
       THEN /\ job_page' = [job_page EXCEPT ![j] = crawler_context]
            /\ job_pc' = [job_pc EXCEPT ![j] = "fetch"]
            /\ UNCHANGED <<job_urls, job_errors, job_return>>
       ELSE /\ VisitRaises(j)
            /\ UNCHANGED job_page
    /\ UNCHANGED <<playwrights, browsers, crawler_playwright, crawler_browser,
                   crawler_context, job_results, OtherJobVars>>
    /\ UNCHANGED <<crawlVars, scrollVars, agentVars, diffVars, normVars, cleanVars,
                   checkVars, flowVars, apiVars>>

\* goto and page.content on the page of the job (crawl_website lines 205-226,
\* crawl_pages lines 270-276)
Fetch(j) ==
    /\ job_pc[j] = "fetch"
    /\ IF Alive(job_page[j])
       THEN /\ job_results' = [job_results EXCEPT ![j] = @ \cup {Head(job_urls[j])}]
            /\ job_urls' = [job_urls EXCEPT ![j] = Tail(@)]
            /\ job_pc' = [job_pc EXCEPT ![j] = "loop"]
            /\ UNCHANGED <<job_errors, job_return>>
       ELSE /\ VisitRaises(j)
            /\ UNCHANGED job_results
    /\ UNCHANGED <<playwrights, browsers, crawler_playwright, crawler_browser,
                   crawler_context, job_page, OtherJobVars>>
    /\ UNCHANGED <<crawlVars, scrollVars, agentVars, diffVars, normVars, cleanVars,
                   checkVars, flowVars, apiVars>>

\* crawl_website line 255 and website_crawl_tool.py line 56: the results are returned
WebsiteJobReturns(j) ==
    /\ job_pc[j] = "loop"
    /\ job_urls[j] = <<>>
    /\ job_kind[j] = "website"
    /\ job_pc' = [job_pc EXCEPT ![j] = "done"]
    /\ job_return' = [job_return EXCEPT ![j] = "results"]
    /\ UNCHANGED <<playwrights, browsers, crawler_playwright, crawler_browser,
                   crawler_context, job_urls, job_page, job_results, job_errors,
                   OtherJobVars>>
    /\ UNCHANGED <<crawlVars, scrollVars, agentVars, diffVars, normVars, cleanVars,
                   checkVars, flowVars, apiVars>>

\* crawl_pages line 278 and close, lines 286-287: self.browser, as it is now, is closed
CloseBrowser(j) ==
    /\ job_pc[j] = "loop"
    /\ job_urls[j] = <<>>
    /\ job_kind[j] = "pages"
    /\ browsers' = IF crawler_browser = 0 THEN browsers
                   ELSE [browsers EXCEPT ![crawler_browser].closed = TRUE]
    /\ job_pc' = [job_pc EXCEPT ![j] = "stop"]
    /\ UNCHANGED <<playwrights, crawler_playwright, crawler_browser, crawler_context,
                   job_urls, job_page, job_results, job_errors, job_return, OtherJobVars>>
    /\ UNCHANGED <<crawlVars, scrollVars, agentVars, diffVars, normVars, cleanVars,
                   checkVars, flowVars, apiVars>>

\* close, lines 288-289: self.playwright, as it is now, is stopped; crawl_pages returns
StopPlaywright(j) ==
    /\ job_pc[j] = "stop"
    /\ playwrights' = [playwrights EXCEPT ![crawler_playwright] = FALSE]
    /\ job_pc' = [job_pc EXCEPT ![j] = "done"]
    /\ job_return' = [job_return EXCEPT ![j] = "results"]
    /\ UNCHANGED <<browsers, crawler_playwright, crawler_browser, crawler_context,
                   job_urls, job_page, job_results, job_errors, OtherJobVars>>
    /\ UNCHANGED <<crawlVars, scrollVars, agentVars, diffVars, normVars, cleanVars,
                   checkVars, flowVars, apiVars>>

(***************************************************************************)
(* utils.clean_html and clean_and_hash, lines 10-45.  An html text is a       *)
(* sequence of tokens: a tag, a white space character or a letter.            *)
(***************************************************************************)
\* the longest html text clean_and_hash is given first
MaxHtmlLen == 3

WhiteSpace == {" ", "\n"}

HtmlTokens == {"<p>", "<script>", "</script>", "<style>", "</style>", "a"} \cup WhiteSpace

\* the tags whose content html.parser reads as raw text up to their end tag
RawTextTags == {"script", "style"}

StartTag(name) == "<" \o name \o ">"

EndTag(name) == "</" \o name \o ">"

IsText(t) == t \in WhiteSpace \/ t = "a"

\* the element a start tag opens: "doc" when its content is parsed as html
Opened(t) == IF \E n \in RawTextTags : t = StartTag(n)
             THEN CHOOSE n \in RawTextTags : t = StartTag(n)
             ELSE "doc"

\* endData: the text collected since the last tag becomes one string of the element
\* it is in
Flushed(strings, cur, mode) ==
    IF cur = <<>> THEN strings ELSE Append(strings, [text |-> cur, parent |-> mode])

\* BeautifulSoup(html, "html.parser"), line 17: the strings of the tree in document
\* order, each with the element that holds it.  Inside script or style everything up
\* to the element's end tag is its text; an end tag nothing opened is dropped; at
\* the end of the input the pending text is flushed into the open element.
RECURSIVE Parse(_, _, _, _, _)
Parse(h, i, mode, cur, strings) ==
    IF i > Len(h) THEN Flushed(strings, cur, mode)
    ELSE IF mode # "doc"
    THEN IF h[i] = EndTag(mode)
         THEN Parse(h, i + 1, "doc", <<>>, Flushed(strings, cur, mode))
         ELSE Parse(h, i + 1, mode, Append(cur, h[i]), strings)
    ELSE IF IsText(h[i])
    THEN Parse(h, i + 1, mode, Append(cur, h[i]), strings)
    ELSE Parse(h, i + 1, Opened(h[i]), <<>>, Flushed(strings, cur, mode))

BeautifulSoup(h) == Parse(h, 1, "doc", <<>>, <<>>)

\* an extraction that forgets the style elements
ExtractedScriptsOnly(strings) ==
    SelectSeq(strings, LAMBDA s : s.parent # "script")

\* lines 20-21: the script and style elements leave the tree with their strings
Extracted(strings) ==
    SelectSeq(strings, LAMBDA s : s.parent \notin RawTextTags)

\* line 24, soup.get_text(separator=" "): the strings joined by a blank
get_text(strings) == Join([i \in 1..Len(strings) |-> strings[i].text], " ")

\* re.sub(r"\s+", " ", text): every run of white space becomes one blank
RECURSIVE Collapsed(_)
Collapsed(text) ==
    IF text = <<>> THEN <<>>
    ELSE IF Head(text) \notin WhiteSpace THEN <<Head(text)>> \o Collapsed(Tail(text))
    ELSE IF Len(text) > 1 /\ text[2] \in WhiteSpace THEN Collapsed(Tail(text))
    ELSE <<" ">> \o Collapsed(Tail(text))

\* str.strip(), on a text whose white space is collapsed
Stripped(text) ==
    The({ IF t # <<>> /\ t[Len(t)] \in WhiteSpace THEN Take(t, Len(t) - 1) ELSE t
          : t \in {IF text # <<>> /\ Head(text) \in WhiteSpace THEN Tail(text) ELSE text} })

\* clean_html, lines 10-29
clean_html(h) == Stripped(Collapsed(get_text(Extracted(BeautifulSoup(h)))))

\* clean_and_hash, lines 39-45
clean_and_hash(h) ==
    The({ <<cleaned, hash_content(cleaned)>> : cleaned \in {clean_html(h)} })

CleanFirst ==
    /\ cpc = "idle"
    /\ first' = clean_and_hash(html)
    /\ cpc' = "first"
    /\ UNCHANGED <<html, variant, repeat, other>>
    /\ UNCHANGED <<crawlVars, scrollVars, agentVars, diffVars, normVars, jobVars,
                   checkVars, flowVars, apiVars>>

CleanRepeat ==
    /\ cpc = "first"
    /\ repeat' = clean_and_hash(html)
    /\ cpc' = "repeat"
    /\ UNCHANGED <<html, variant, first, other>>
    /\ UNCHANGED <<crawlVars, scrollVars, agentVars, diffVars, normVars, jobVars,
                   checkVars, flowVars, apiVars>>

CleanOther ==
    /\ cpc = "repeat"
    /\ other' = clean_and_hash(variant)
    /\ cpc' = "other"
    /\ UNCHANGED <<html, variant, first, repeat>>
    /\ UNCHANGED <<crawlVars, scrollVars, agentVars, diffVars, normVars, jobVars,
                   checkVars, flowVars, apiVars>>

(***************************************************************************)
(* Crawler.normalize_url, called on a URL and called again on what it         *)
(* returned.                                                                  *)
(***************************************************************************)
\* the longest href normalize_url is given
MaxHrefLen == 3

HrefTokens == {"/", "x", "?", "#"}

\* the url arguments: every short href, and the hrefs of the site's anchors
Hrefs ==
    UNION { [1..n -> HrefTokens] : n \in 0..MaxHrefLen }
        \cup {HrefXSlash, HrefOtherHost, HrefNoHost, HrefMailto}

\* the base_url arguments: the start URL (line 193) or the fetched page (line 236)
BaseUrls == StartUrls \cup {PageX}

\* urljoin or urldefrag raises
NormalizeRaises ==
    /\ npc = "idle"
    /\ normalize_url_raises(raw_url, base_url)
    /\ npc' = "raised"
    /\ UNCHANGED <<raw_url, base_url, normalized_once, normalized_twice>>
    /\ UNCHANGED <<crawlVars, scrollVars, agentVars, diffVars, cleanVars, jobVars,
                   checkVars, flowVars, apiVars>>

Normalize ==
    /\ npc = "idle"
    /\ ~normalize_url_raises(raw_url, base_url)
    /\ normalized_once' = normalize_url(raw_url, base_url)
    /\ npc' = "once"
    /\ UNCHANGED <<raw_url, base_url, normalized_twice>>
    /\ UNCHANGED <<crawlVars, scrollVars, agentVars, diffVars, cleanVars, jobVars,
                   checkVars, flowVars, apiVars>>

NormalizeAgain ==
    /\ npc = "once"
    /\ ~normalize_url_raises(normalized_once, base_url)
    /\ normalized_twice' = normalize_url(normalized_once, base_url)
    /\ npc' = "twice"
    /\ UNCHANGED <<raw_url, base_url, normalized_once>>
    /\ UNCHANGED <<crawlVars, scrollVars, agentVars, diffVars, cleanVars, jobVars,
                   checkVars, flowVars, apiVars>>

(***************************************************************************)
(* The tracking agent, backend/agent/feature_pulse_agent.py: the nodes        *)
(* monitor_websites, monitor_apps and detect_changes of one competitor, run   *)
(* after run as run_weekly_tracking starts them.                              *)
(***************************************************************************)
\* the snapshots the Snapshots collection grows to
MaxStored == 3

\* WebsiteCrawlTool.run returns {"error": str(e)} when crawl_website raises, and
\* monitor_websites reads the pair as a page: its URL is "error", its text the message
ErrorKey == <<"error">>

ErrorMessage == <<"Invalid IPv6 URL">>

\* the pages a crawl hands to monitor_websites, as url and cleaned text
CrawledPages ==
    ({PageX, RootNoSlash} \X CleanTexts) \cup {<<ErrorKey, ErrorMessage>>}

\* monitor_websites, lines 185-191: the snapshot of a crawled page
SnapshotOf(page) ==
    [url |-> page[1], content |-> page[2], content_hash |-> hash_content(page[2])]

\* the lists of snapshots monitor_websites may collect, up to n long
SnapshotLists(n) ==
    UNION { [1..k -> {SnapshotOf(page) : page \in CrawledPages}] : k \in 0..n }

\* what monitor_apps may collect
AppUpdateLists == { <<>>, <<[store |-> "appstore", data |-> <<"v2">>]>> }

\* pydantic HttpUrl accepts the url of a Snapshot
ValidHttpUrlParsed(p) == ~p.err /\ p.scheme \in {<<"http">>, <<"https">>} /\ p.netloc # <<>>

ValidHttpUrl(u) == The({ ValidHttpUrlParsed(p) : p \in {UrlParse(u)} })

\* str(HttpUrl): a URL without a path is written with the path "/"
HttpUrlStrParsed(u, p) ==
    IF p.path = <<>>
    THEN UrlUnsplit(p.scheme, p.netloc, <<"/">>, p.query, p.fragment)
    ELSE u

HttpUrlStr(u) == The({ HttpUrlStrParsed(u, p) : p \in {UrlParse(u)} })

\* add_snapshot: the document insert_one stores for a Snapshot
Document(snapshot) ==
    [url |-> HttpUrlStr(snapshot.url), content_hash |-> snapshot.content_hash,
     raw_text |-> snapshot.content]

\* lines 303-307: the index of the first document of get_snapshots with the URL, or 0
PreviousSnapshot(previous_snapshots, u) ==
    IF \E i \in 1..Len(previous_snapshots) : previous_snapshots[i].url = u
    THEN CHOOSE i \in 1..Len(previous_snapshots) :
            /\ previous_snapshots[i].url = u
            /\ \A j \in 1..(i - 1) : previous_snapshots[j].url # u
    ELSE 0

\* a change whose analysis takes the new text for the old one
WebsiteChangeSwapped(previous_snapshot, snapshot) ==
    [change_type |-> "website", url |-> snapshot.url,
     change_details |-> detect_changes(snapshot.content, previous_snapshot.raw_text)]

\* lines 317-323
WebsiteChange(previous_snapshot, snapshot) ==
    [change_type |-> "website", url |-> snapshot.url,
     change_details |-> detect_changes(previous_snapshot.raw_text, snapshot.content)]

\* a comparison that takes a URL without a previous snapshot for a changed one
ComparedWithNothing(changes, previous_snapshots, i, snapshot) ==
    IF i = 0 THEN Append(changes, WebsiteChange([raw_text |-> <<>>], snapshot))
    ELSE IF previous_snapshots[i].content_hash # snapshot.content_hash
    THEN Append(changes, WebsiteChange(previous_snapshots[i], snapshot))
    ELSE changes

\* lines 309-323: the changes after the comparison with document i (0: there is none)
Compared(changes, previous_snapshots, i, snapshot) ==
    IF i = 0 THEN changes
    ELSE IF previous_snapshots[i].content_hash # snapshot.content_hash
    THEN Append(changes, WebsiteChange(previous_snapshots[i], snapshot))
    ELSE changes

\* lines 298-336: one iteration of the loop over state["website_snapshots"];
\* Snapshot(...) raises for a url that is no HttpUrl, after the comparison
CheckSnapshot(acc, snapshot) ==
    [ detected_changes |->
          Compared(acc.detected_changes, acc.snapshots,
                   PreviousSnapshot(acc.snapshots, snapshot.url), snapshot),
      snapshots |->
          IF ValidHttpUrl(snapshot.url) THEN Append(acc.snapshots, Document(snapshot))
          ELSE acc.snapshots,
      observed |->
          IF ValidHttpUrl(snapshot.url) THEN Append(acc.observed, snapshot)
          ELSE acc.observed,
      errors |->
          IF ValidHttpUrl(snapshot.url) THEN acc.errors
          ELSE Append(acc.errors, "Change detection failed for snapshot") ]

RECURSIVE CheckWebsites(_, _)
CheckWebsites(list, acc) ==
    IF list = <<>> THEN acc ELSE CheckWebsites(Tail(list), CheckSnapshot(acc, Head(list)))

\* lines 358-365
AppChange(app_update) ==
    [change_type |-> "app", url |-> <<>>, store |-> app_update.store,
     data |-> app_update.data]

\* lines 339-367
AppChanges(updates) == [i \in 1..Len(updates) |-> AppChange(updates[i])]

\* run_weekly_tracking, lines 655-668: the initial state of a run
StartRun ==
    /\ stage \in {"idle", "changes_detected"}
    /\ stage' = "starting"
    /\ website_snapshots' = <<>>
    /\ app_updates' = <<>>
    /\ detected_changes' = <<>>
    /\ errors' = <<>>
    /\ UNCHANGED <<snapshots, observed>>
    /\ UNCHANGED <<crawlVars, scrollVars, diffVars, normVars, cleanVars, jobVars,
                   checkVars, flowVars, apiVars>>

\* monitor_websites, lines 167-215
MonitorWebsites ==
    /\ stage = "starting"
    /\ \E list \in SnapshotLists(MaxStored - Len(snapshots)) :
        website_snapshots' = list
    /\ stage' = "websites_monitored"
    /\ UNCHANGED <<app_updates, detected_changes, errors, snapshots, observed>>
    /\ UNCHANGED <<crawlVars, scrollVars, diffVars, normVars, cleanVars, jobVars,
                   checkVars, flowVars, apiVars>>

\* monitor_apps, lines 217-261
MonitorApps ==
    /\ stage = "websites_monitored"
    /\ \E updates \in AppUpdateLists :
        app_updates' = updates
    /\ stage' = "apps_monitored"
    /\ UNCHANGED <<website_snapshots, detected_changes, errors, snapshots, observed>>
    /\ UNCHANGED <<crawlVars, scrollVars, diffVars, normVars, cleanVars, jobVars,
                   checkVars, flowVars, apiVars>>

\* the state after the website loop of detect_changes
Checked ==
    CheckWebsites(website_snapshots,
                  [detected_changes |-> <<>>, snapshots |-> snapshots,
                   observed |-> observed, errors |-> errors])

\* detect_changes, lines 292-372 (monitor_social, which runs before it, leaves the
\* fields of the model alone)
AgentDetectChanges ==
    /\ stage = "apps_monitored"
    /\ detected_changes' = Checked.detected_changes \o AppChanges(app_updates)
    /\ snapshots' = Checked.snapshots
    /\ observed' = Checked.observed
    /\ errors' = Checked.errors
    /\ stage' = "changes_detected"
    /\ UNCHANGED <<website_snapshots, app_updates>>
    /\ UNCHANGED <<crawlVars, scrollVars, diffVars, normVars, cleanVars, jobVars,
                   checkVars, flowVars, apiVars>>

(***************************************************************************)
(* Crawler.should_crawl_url, called on a URL and the host of the scope.       *)
(***************************************************************************)
\* the url arguments: a scheme, a host or none, a path, a query or none
CheckSchemes == {<<"https">>, <<"http">>, <<"HTTPS">>, <<"mailto">>}

CheckHosts == {<<>>, <<"/", "/", "a.test">>, <<"/", "/", "b.test">>}

CheckPaths == {<<"/", "x">>, <<"/", "x", ".pdf">>, <<"/", "x", ".PDF">>}

CheckQueries == {<<>>, <<"?", "y">>, <<"?", "y", ".pdf">>}

\* the URLs should_crawl_url is given, and one urlparse raises for
CheckedUrls ==
    { scheme \o <<":">> \o host \o path \o query :
        scheme \in CheckSchemes, host \in CheckHosts, path \in CheckPaths,
        query \in CheckQueries }
        \cup {Malformed}

ShouldCrawl ==
    /\ spc = "idle"
    /\ verdict' = should_crawl_url(checked_url, scope_domain)
    /\ spc' = "done"
    /\ UNCHANGED <<checked_url, scope_domain>>
    /\ UNCHANGED <<crawlVars, scrollVars, agentVars, diffVars, normVars, cleanVars,
                   jobVars, flowVars, apiVars>>

(***************************************************************************)
(* The tracking workflow: _build_graph, lines 121-152, and its nodes.         *)
(***************************************************************************)
\* lines 128-136: the nodes of the graph
Nodes ==
    { "fetch_competitors", "monitor_websites", "monitor_apps", "monitor_social",
      "detect_changes", "analyze_changes", "generate_summary", "deliver_report",
      "handle_errors" }

\* lines 139-150: the edges of the graph
Edges ==
    { <<"START", "fetch_competitors">>,
      <<"fetch_competitors", "monitor_websites">>,
      <<"monitor_websites", "monitor_apps">>,
      <<"monitor_apps", "monitor_social">>,
      <<"monitor_social", "detect_changes">>,
      <<"detect_changes", "analyze_changes">>,
      <<"analyze_changes", "generate_summary">>,
      <<"generate_summary", "deliver_report">>,
      <<"deliver_report", "END">>,
      <<"handle_errors", "END">> }

\* the nodes whose except clause sets stage to "error" (lines 164, 584, 636); the
\* other nodes record their errors per item and set their own stage after the loop
StageErrorNodes == { "fetch_competitors", "generate_summary", "deliver_report" }

\* state["stage"] as a node sets it when nothing raised in it
StageOf(n) ==
    CASE n = "fetch_competitors" -> "competitors_fetched"
      [] n = "monitor_websites" -> "websites_monitored"
      [] n = "monitor_apps" -> "apps_monitored"
      [] n = "monitor_social" -> "social_monitored"
      [] n = "detect_changes" -> "changes_detected"
      [] n = "analyze_changes" -> "changes_analyzed"
      [] n = "generate_summary" -> "summary_generated"
      [] n = "deliver_report" -> "report_delivered"

\* what happens inside a node: nothing raises, or an exception is caught and recorded;
\* handle_errors, lines 639-648, records nothing
NodeOutcomes(n) == IF n = "handle_errors" THEN {"ok"} ELSE {"ok", "error"}

\* state["stage"] after node n
StageAfter(n, outcome, stage_before) ==
    IF n = "handle_errors" THEN stage_before
    ELSE IF outcome = "error" /\ n \in StageErrorNodes THEN "error"
    ELSE StageOf(n)

\* the graph runs the node its edge leads to
RunNode ==
    /\ \E n \in Nodes, outcome \in {"ok", "error"} :
        /\ <<flow_node, n>> \in Edges
        /\ outcome \in NodeOutcomes(n)
        /\ flow_node' = n
        /\ flow_path' = Append(flow_path, n)
        /\ flow_stage' = StageAfter(n, outcome, flow_stage)
        /\ flow_errors' = IF outcome = "error" THEN Append(flow_errors, n) ELSE flow_errors
        /\ error_notified' = (error_notified \/ (n = "handle_errors" /\ flow_errors # <<>>))
    /\ UNCHANGED <<crawlVars, scrollVars, agentVars, diffVars, normVars, cleanVars,
                   jobVars, checkVars, apiVars>>

\* the edge of the last node leads to END: ainvoke returns the final state
ReachEnd ==
    /\ <<flow_node, "END">> \in Edges
    /\ flow_node' = "END"
    /\ UNCHANGED <<flow_stage, flow_errors, flow_path, error_notified>>
    /\ UNCHANGED <<crawlVars, scrollVars, agentVars, diffVars, normVars, cleanVars,
                   jobVars, checkVars, apiVars>>

(***************************************************************************)
(* The tracking endpoints of routes/router.py.  A tracking run is one         *)
(* run_weekly_tracking; the runs of different requests interleave at their    *)
(* awaits.                                                                    *)
(***************************************************************************)
\* the API calls of one behaviour
MaxCalls == 4

\* what starts a tracking run: POST /tracking/start, /reports/generate, /crawl
Origins == {"start", "report", "crawl"}

\* run_weekly_tracking returns success True or, from its except clause, False
RunResults == {"success", "error"}

\* one more run of origin o is in flight
Launched(o) == [in_flight EXCEPT ![o] = @ + 1]

\* the tracking runs that have not finished
TotalInFlight == in_flight["start"] + in_flight["report"] + in_flight["crawl"]

\* POST /tracking/start, lines 251-271, when the status is not RUNNING
StartTracking ==
    /\ api_calls < MaxCalls
    /\ tracking_status # "running"
    /\ tracking_status' = "running"
    /\ in_flight' = Launched("start")
    /\ last_response' = 200
    /\ api_calls' = api_calls + 1
    /\ UNCHANGED finished
    /\ UNCHANGED <<crawlVars, scrollVars, agentVars, diffVars, normVars, cleanVars,
                   jobVars, checkVars, flowVars>>

\* POST /tracking/start, lines 256-257: 409 while the status is RUNNING
StartRejected ==
    /\ api_calls < MaxCalls
    /\ tracking_status = "running"
    /\ last_response' = 409
    /\ api_calls' = api_calls + 1
    /\ UNCHANGED <<tracking_status, in_flight, finished>>
    /\ UNCHANGED <<crawlVars, scrollVars, agentVars, diffVars, normVars, cleanVars,
                   jobVars, checkVars, flowVars>>

\* POST /tracking/stop, lines 273-283: the status is set to IDLE, no run is touched
StopTracking ==
    /\ api_calls < MaxCalls
    /\ tracking_status' = "idle"
    /\ last_response' = 200
    /\ api_calls' = api_calls + 1
    /\ UNCHANGED <<in_flight, finished>>
    /\ UNCHANGED <<crawlVars, scrollVars, agentVars, diffVars, normVars, cleanVars,
                   jobVars, checkVars, flowVars>>

\* POST /reports/generate, lines 468-478
GenerateReport ==
    /\ api_calls < MaxCalls
    /\ in_flight' = Launched("report")
    /\ last_response' = 200
    /\ api_calls' = api_calls + 1
    /\ UNCHANGED <<tracking_status, finished>>
    /\ UNCHANGED <<crawlVars, scrollVars, agentVars, diffVars, normVars, cleanVars,
                   jobVars, checkVars, flowVars>>

\* POST /crawl with the id of a competitor, lines 285-299
CrawlCompetitor ==
    /\ api_calls < MaxCalls
    /\ in_flight' = Launched("crawl")
    /\ last_response' = 200
    /\ api_calls' = api_calls + 1
    /\ UNCHANGED <<tracking_status, finished>>
    /\ UNCHANGED <<crawlVars, scrollVars, agentVars, diffVars, normVars, cleanVars,
                   jobVars, checkVars, flowVars>>

\* a tracking run finishes: run_scheduled_tracking, feature_pulse_agent.py lines
\* 701-706, or the await of router.py line 298 returns
RunFinishes ==
    /\ \E o \in Origins, result \in RunResults :
        /\ in_flight[o] > 0
        /\ in_flight' = [in_flight EXCEPT ![o] = @ - 1]
        /\ finished' = [finished EXCEPT ![result] = @ + 1]
    /\ UNCHANGED <<tracking_status, last_response, api_calls>>
    /\ UNCHANGED <<crawlVars, scrollVars, agentVars, diffVars, normVars, cleanVars,
                   jobVars, checkVars, flowVars>>

(***************************************************************************)
(* Initial states and next-state relations.                                  *)
(***************************************************************************)
\* router.py lines 80-88: the module is loaded, no request was served
ApiIdle ==
    /\ tracking_status = "idle"
    /\ in_flight = [o \in Origins |-> 0]
    /\ last_response = 0
    /\ api_calls = 0
    /\ finished = [result \in RunResults |-> 0]

\* run_weekly_tracking, lines 655-668: the initial state of a run
FlowIdle ==
    /\ flow_node = "START"
    /\ flow_stage = "starting"
    /\ flow_errors = <<>>
    /\ flow_path = <<>>
    /\ error_notified = FALSE

\* no call of should_crawl_url
CheckIdle ==
    /\ spc = "idle"
    /\ checked_url = Root
    /\ scope_domain = <<"a.test">>
    /\ verdict = FALSE

\* the arguments of a call of should_crawl_url
CheckInit ==
    /\ spc = "idle"
    /\ checked_url \in CheckedUrls
    /\ scope_domain = <<"a.test">>
    /\ verdict = FALSE

CrawlInit ==
    /\ pc = "idle"
    /\ raised = "none"
    /\ browser = "none"
    /\ url = <<>>
    /\ max_pages = 0
    /\ base_domain = <<>>
    /\ visited_urls = {}
    /\ seed = {}
    /\ results = EmptyMap
    /\ urls_to_visit = <<>>
    /\ log = <<>>
    /\ discovered = {}
    /\ open_pages = {}
    /\ edges = {}
    /\ skipped = {}

\* a page visit whose scroll handling has not started
ScrollIdle ==
    /\ sphase = "Idle"
    /\ scroll = FALSE
    /\ smart_scroll = FALSE
    /\ initial_height = 0
    /\ last_height = 0
    /\ max_scrolls = 0
    /\ loop_scrolls = 0
    /\ probe_scrolls = 0
    /\ probed_height = 0
    /\ converged = FALSE

\* the scroll and smart_scroll arguments of the crawl
ScrollInit ==
    /\ sphase = "Idle"
    /\ scroll \in BOOLEAN
    /\ smart_scroll \in BOOLEAN
    /\ initial_height = 0
    /\ last_height = 0
    /\ max_scrolls = 0
    /\ loop_scrolls = 0
    /\ probe_scrolls = 0
    /\ probed_height = 0
    /\ converged = FALSE

\* an agent that has not run, over an empty Snapshots collection
AgentInit ==
    /\ stage = "idle"
    /\ website_snapshots = <<>>
    /\ app_updates = <<>>
    /\ detected_changes = <<>>
    /\ errors = <<>>
    /\ snapshots = <<>>
    /\ observed = <<>>

\* no call of utils.detect_changes
DiffIdle ==
    /\ old_text = <<>>
    /\ new_text = <<>>
    /\ returned = FALSE
    /\ analysis = NoAnalysis

\* the arguments of a call of utils.detect_changes
DiffInit ==
    /\ old_text \in Texts
    /\ new_text \in Texts
    /\ returned = FALSE
    /\ analysis = NoAnalysis

\* the html texts clean_and_hash is given first
Htmls == UNION { [1..n -> HtmlTokens] : n \in 0..MaxHtmlLen }

\* an html text with its insignificant content taken out: every run of white space
\* outside script and style is one blank, every script and style element is empty
RECURSIVE Skeleton(_, _, _, _)
Skeleton(h, i, mode, out) ==
    IF i > Len(h) THEN out
    ELSE IF mode # "doc"
    THEN IF h[i] = EndTag(mode)
         THEN Skeleton(h, i + 1, "doc", Append(out, h[i]))
         ELSE Skeleton(h, i + 1, mode, out)
    ELSE IF h[i] \in WhiteSpace
    THEN IF out # <<>> /\ out[Len(out)] = " "
         THEN Skeleton(h, i + 1, mode, out)
         ELSE Skeleton(h, i + 1, mode, Append(out, " "))
    ELSE Skeleton(h, i + 1, Opened(h[i]), Append(out, h[i]))

\* two html texts differ only in white space runs and in the contents of script and
\* style elements
DifferInsignificantly(g, h) ==
    Skeleton(g, 1, "doc", <<>>) = Skeleton(h, 1, "doc", <<>>)

\* the texts one token away from h: a token replaced, inserted or deleted
Edits(h) ==
    { [h EXCEPT ![i] = t] : i \in 1..Len(h), t \in HtmlTokens }
        \cup { Take(h, i) \o <<t>> \o Drop(h, i) : i \in 0..Len(h), t \in HtmlTokens }
        \cup { Take(h, i - 1) \o Drop(h, i) : i \in 1..Len(h) }

\* the second texts: those one token away from h that differ from it insignificantly
Variants(h) == { g \in Edits(h) : DifferInsignificantly(g, h) }

\* no call of clean_and_hash
CleanIdle ==
    /\ cpc = "idle"
    /\ html = <<>>
    /\ variant = <<>>
    /\ first = <<>>
    /\ repeat = <<>>
    /\ other = <<>>

\* the arguments of the calls of clean_and_hash
CleanInit ==
    /\ cpc = "idle"
    /\ html \in Htmls
    /\ variant \in Variants(html)
    /\ first = <<>>
    /\ repeat = <<>>
    /\ other = <<>>

\* the URL lists a job is started for
JobUrls == { SubSeq(<<Root, PageX, PageY>>, 1, n) : n \in 1..MaxJobUrls }

\* CRAWLER as the import of crawler.py leaves it, and the jobs of the given kinds
JobsOfKinds(kinds) ==
    /\ playwrights = <<>>
    /\ browsers = <<>>
    /\ crawler_playwright = 0
    /\ crawler_browser = 0
    /\ crawler_context = 0
    /\ job_kind \in [Jobs -> kinds]
    /\ job_pc = [j \in Jobs |-> "idle"]
    /\ job_urls \in [Jobs -> JobUrls]
    /\ job_asked = job_urls
    /\ job_page = [j \in Jobs |-> 0]
    /\ job_results = [j \in Jobs |-> {}]
    /\ job_errors = [j \in Jobs |-> 0]
    /\ job_return = [j \in Jobs |-> "none"]

\* no job on CRAWLER
JobsIdle == JobsOfKinds({"none"}) /\ job_urls = [j \in Jobs |-> <<Root>>]

\* every pair of jobs; a job of kind "none" never starts
JobsInit == JobsOfKinds({"website", "pages", "none"})

\* no call of normalize_url
NormIdle ==
    /\ npc = "idle"
    /\ raw_url = <<>>
    /\ base_url = Root
    /\ normalized_once = <<>>
    /\ normalized_twice = <<>>

\* the arguments of a call of normalize_url
NormInit ==
    /\ npc = "idle"
    /\ raw_url \in Hrefs
    /\ base_url \in BaseUrls
    /\ normalized_once = <<>>
    /\ normalized_twice = <<>>

\* one crawl_website call of a new Crawler
Init == CrawlInit /\ ScrollIdle /\ AgentInit /\ DiffIdle /\ NormIdle /\ CleanIdle /\ JobsIdle
        /\ CheckIdle /\ FlowIdle /\ ApiIdle

Next ==
    \/ CallRaisesValueError
    \/ CallInitFails
    \/ CallEntersLoop
    \/ SkipVisited
    \/ VisitFails
    \/ VisitStores
    \/ Return

Spec == Init /\ [][Next]_vars

\* every iteration of the loop of crawl_website returns
FairSpec == Spec /\ WF_vars(Next)

\* the scroll handling of one page visit
ScrollSpecInit == CrawlInit /\ ScrollInit /\ AgentInit /\ DiffIdle /\ NormIdle /\ CleanIdle /\ JobsIdle
        /\ CheckIdle /\ FlowIdle /\ ApiIdle

ScrollNext ==
    \/ ScrollBegin
    \/ Probe
    \/ ScrollStep
    \/ ScrollRaises

ScrollSpec == ScrollSpecInit /\ [][ScrollNext]_vars

\* every scroll step returns
FairScrollSpec == ScrollSpec /\ WF_vars(ScrollNext)

\* the tracking runs of the agent
AgentNext ==
    \/ StartRun
    \/ MonitorWebsites
    \/ MonitorApps
    \/ AgentDetectChanges

AgentSpec == Init /\ [][AgentNext]_vars

\* utils.detect_changes on every pair of texts
DetectInit == CrawlInit /\ ScrollIdle /\ AgentInit /\ DiffInit /\ NormIdle /\ CleanIdle /\ JobsIdle
        /\ CheckIdle /\ FlowIdle /\ ApiIdle

DetectNext == CallDetectChanges

DetectSpec == DetectInit /\ [][DetectNext]_vars

\* normalize_url on every pair of a URL and a base
NormalizeInit == CrawlInit /\ ScrollIdle /\ AgentInit /\ DiffIdle /\ NormInit /\ CleanIdle /\ JobsIdle
        /\ CheckIdle /\ FlowIdle /\ ApiIdle

NormalizeNext ==
    \/ NormalizeRaises
    \/ Normalize
    \/ NormalizeAgain

NormalizeSpec == NormalizeInit /\ [][NormalizeNext]_vars

\* clean_and_hash on every html text, twice, and on a text that differs from it
\* insignificantly
CleanSpecInit == CrawlInit /\ ScrollIdle /\ AgentInit /\ DiffIdle /\ NormIdle /\ CleanInit /\ JobsIdle
        /\ CheckIdle /\ FlowIdle /\ ApiIdle

CleanNext ==
    \/ CleanFirst
    \/ CleanRepeat
    \/ CleanOther

CleanSpec == CleanSpecInit /\ [][CleanNext]_vars

\* the jobs of the tools on CRAWLER, interleaved at their awaits
JobsSpecInit ==
    CrawlInit /\ ScrollIdle /\ AgentInit /\ DiffIdle /\ NormIdle /\ CleanIdle /\ JobsInit
        /\ CheckIdle /\ FlowIdle /\ ApiIdle

JobsNext ==
    \E j \in Jobs :
        \/ JobStart(j)
        \/ InitStart(j)
        \/ InitLaunch(j)
        \/ InitContext(j)
        \/ NewPage(j)
        \/ Fetch(j)
        \/ WebsiteJobReturns(j)
        \/ CloseBrowser(j)
        \/ StopPlaywright(j)

JobsSpec == JobsSpecInit /\ [][JobsNext]_vars

(***************************************************************************)
(* Properties of crawl_website (Spec, FairSpec).                             *)
(***************************************************************************)
\* the URLs of the page visits, in order
Visited(i) == log[i][1]

\* the page visits that raised before the text was stored
FailedVisits == { i \in 1..Len(log) : log[i][2] \in FailsBeforeStore }

\* C1: in every state of a crawl_website call and at its return, results has at most
\* max_pages entries; with max_pages = 0 the map is empty and no page was visited.
C1_BudgetRespected ==
    /\ NumResults <= max_pages
    /\ max_pages = 0 => (results = EmptyMap /\ log = <<>>)

\* C1: the crawl returned with the budget used up and URLs left on the frontier
C1_Witness ==
    /\ pc = "done"
    /\ max_pages >= 2
    /\ NumResults = max_pages
    /\ urls_to_visit # <<>>

\* C2: in a call that starts with an empty visited set, no normalized URL is visited
\* (added to visited_urls, loaded) twice, and every stored key was visited once.
C2_NoDuplicateVisits ==
    seed = {} =>
        /\ \A i, j \in 1..Len(log) : Visited(i) = Visited(j) => i = j
        /\ \A i \in 1..Len(log) : Visited(i) \in visited_urls
        /\ \A k \in DOMAIN results : \E i \in 1..Len(log) : Visited(i) = k

\* C2: the frontier holds a URL that was queued in another spelling than the one it
\* was visited under, and the loop is about to skip it
C2_Witness ==
    /\ pc = "loop"
    /\ seed = {}
    /\ LoopCondition
    /\ AlreadyVisited
    /\ Head(urls_to_visit) # NormalizedHead
    /\ Len(log) >= 2

\* C3: no URL is visited (and none is a key of results) whose host is another than
\* the host of the start URL.
C3_OnlyStartHost ==
    /\ \A i \in 1..Len(log) : UrlParse(Visited(i)).netloc = base_domain
    /\ \A k \in DOMAIN results : UrlParse(k).netloc = base_domain

\* C4: a page error does not end the call, and results holds exactly the pages whose
\* visit did not raise before the text was stored, those before and those after a
\* failing page.
C4_FailureIsolated ==
    /\ FailedVisits # {} => pc \in {"loop", "done"}
    /\ DOMAIN results = { Visited(i) : i \in (1..Len(log)) \ FailedVisits }
    /\ \A i \in FailedVisits : Visited(i) \notin DOMAIN results

\* C4: the call returned a map with a page fetched before and a page fetched after a
\* page whose visit raised
C4_Witness ==
    /\ pc = "done"
    /\ Len(log) >= 3
    /\ 2 \in FailedVisits
    /\ Visited(1) \in DOMAIN results
    /\ Visited(3) \in DOMAIN results

\* C5: crawl_website raises to its caller only when the browser could not be
\* initialized.
C5_RaisesOnlyForInit == pc = "raised" => raised = "init"

\* C6: every crawl_website call ends, and when it returns the frontier is empty or
\* results holds max_pages entries.
C6_Terminates ==
    /\ <>(pc \in {"done", "raised"})
    /\ [](pc = "done" => (urls_to_visit = <<>> \/ NumResults = max_pages))

\* C6: the call returned because the frontier ran empty, below the budget
C6_Witness ==
    /\ pc = "done"
    /\ urls_to_visit = <<>>
    /\ NumResults < max_pages
    /\ Len(log) >= 2

\* the pages a set of URLs names
PagesOf(urls) == { PageOf(u) : u \in urls }

\* the pages of the start host that the start URL and the links of fetched pages name
ReachablePages ==
    PagesOf({normalize_url(url, url)}
            \cup { u \in discovered : UrlParse(u).netloc = base_domain })

\* C7: when no page visit raises and max_pages is larger than the number of reachable
\* pages, the keys of the returned map name exactly the reachable pages of the start
\* host, one key per page.
C7_ExactlyReachable ==
    ( /\ pc = "done"
      /\ seed = {}
      /\ \A i \in 1..Len(log) : log[i][2] = "ok"
      /\ Cardinality(ReachablePages) < max_pages )
    => /\ PagesOf(DOMAIN results) = ReachablePages
       /\ \A k1, k2 \in DOMAIN results : PageOf(k1) = PageOf(k2) => k1 = k2

(***************************************************************************)
(* Properties of the scroll handling (ScrollSpec, FairScrollSpec).           *)
(***************************************************************************)
\* C8: whatever heights the page reports, the scroll handling ends (Stable, or the
\* exception of a scroll step) and the loop of infinite_scroll never runs more
\* iterations than its cap, after at most one probe scroll.
C8_ScrollTerminates ==
    /\ [](loop_scrolls <= max_scrolls /\ probe_scrolls <= 1)
    /\ [](sphase = "Stable" /\ loop_scrolls < max_scrolls /\ loop_scrolls > 0 => converged)
    /\ <>(sphase \in {"Stable", "Raised"})

\* C8: the handling ended by the cap of a plain scroll, the height still changing
C8_Witness ==
    /\ sphase = "Stable"
    /\ max_scrolls = DefaultMaxScrolls
    /\ loop_scrolls = max_scrolls
    /\ ~converged

(***************************************************************************)
(* Properties of the agent's detect_changes (AgentSpec).                     *)
(***************************************************************************)
\* the last of the first n stored observations that has the URL u, or 0
LastObserved(u, n) ==
    IF \E j \in 1..n : observed[j].url = u
    THEN CHOOSE j \in 1..n : observed[j].url = u /\ \A k \in (j + 1)..n : observed[k].url # u
    ELSE 0

\* the observations stored before the run
BeforeRun == Len(observed) - Len(website_snapshots)

\* snapshot i of the run differs from the previous observation of its URL
DiffersFromLast(i, j) ==
    j # 0 /\ observed[j].content_hash # website_snapshots[i].content_hash

\* the website changes the run has to record, as url and new hash, from snapshot i on
RECURSIVE ExpectedChanges(_)
ExpectedChanges(i) ==
    IF i > Len(website_snapshots) THEN <<>>
    ELSE IF DiffersFromLast(i, LastObserved(website_snapshots[i].url, BeforeRun + i - 1))
    THEN << <<website_snapshots[i].url, website_snapshots[i].content_hash>> >>
             \o ExpectedChanges(i + 1)
    ELSE ExpectedChanges(i + 1)

IsWebsiteChange(c) == c.change_type = "website"

\* the website changes the run recorded, as url and new hash
RecordedChanges ==
    [ k \in 1..Len(SelectSeq(detected_changes, IsWebsiteChange)) |->
        << SelectSeq(detected_changes, IsWebsiteChange)[k].url,
           SelectSeq(detected_changes, IsWebsiteChange)[k].change_details.new_hash >> ]

\* C9: a run that stored every snapshot recorded a website change for a snapshot
\* exactly when its content hash differs from the content hash of the previous
\* observation of its URL.
C9_ComparesWithLatest ==
    (stage = "changes_detected" /\ errors = <<>>) => RecordedChanges = ExpectedChanges(1)

(***************************************************************************)
(* Properties of utils.detect_changes (DetectSpec).                          *)
(***************************************************************************)
\* C10: the record detect_changes returns carries the hashes of its two texts, has
\* changed = (old_hash # new_hash), and an empty diff whenever changed is false.
C10_ChangedIffHashesDiffer ==
    returned =>
        /\ analysis.old_hash = hash_content(old_text)
        /\ analysis.new_hash = hash_content(new_text)
        /\ analysis.changed = (analysis.old_hash # analysis.new_hash)
        /\ ~analysis.changed => analysis.diff = <<>>

\* C10: detect_changes returned for two equal texts of several lines
C10_Witness ==
    /\ returned
    /\ ~analysis.changed
    /\ Len(old_text) >= 2
    /\ Has(old_text, "\n")

\* C11: the diff detect_changes returns is non-empty if and only if changed is true:
\* two texts with different hashes always give a non-empty diff.
C11_DiffNonEmptyIffChanged ==
    returned => ((analysis.diff # <<>>) <=> analysis.changed)

(***************************************************************************)
(* Properties of Crawler.normalize_url (NormalizeSpec).                      *)
(***************************************************************************)
\* C12: normalization is idempotent: normalize_url(normalize_url(u, b), b) equals
\* normalize_url(u, b) for every URL u and base b.
C12_NormalizeIdempotent ==
    npc = "twice" => normalized_twice = normalized_once

(***************************************************************************)
(* Properties of utils.clean_and_hash (CleanSpec).                           *)
(***************************************************************************)
\* C13: clean_and_hash gives the same text and hash on every call with the same html,
\* and two html texts that differ only in white space runs or in the contents of
\* script and style elements get the same extracted text and the same hash.
C13_InsignificantContentIgnored ==
    /\ cpc \in {"repeat", "other"} => repeat = first
    /\ (cpc = "other" /\ DifferInsignificantly(variant, html)) => other = first

\* C13: the calls returned for two texts that differ in the content of a script and
\* for two that differ in a white space run between two words
C13_Witness ==
    /\ cpc = "other"
    /\ variant # html
    /\ DifferInsignificantly(variant, html)
    /\ first[1] # <<>>
    /\ \/ \E i \in 1..Len(html) : html[i] = "<script>" /\ Len(variant) > Len(html)
       \/ \E i \in 1..Len(html) : html[i] = "\n" /\ variant[i] = " "

(***************************************************************************)
(* Further properties of crawl_website (Spec).                               *)
(***************************************************************************)
\* C14: every page crawl_website opens for a URL is closed before the crawler goes on
\* to the next frontier item, on the success path and on every failure path: between
\* two page visits, and when the call has returned, no page is open.
C14_NoPageLeftOpen ==
    pc \in {"loop", "done"} => open_pages = {}

(***************************************************************************)
(* Properties of the crawl jobs on the shared CRAWLER (JobsSpec).            *)
(***************************************************************************)
\* C15: crawl jobs that run at the same time share no mutable state: in every
\* interleaving each job fetches the pages, meets the errors and returns the result
\* it has when it runs alone, which is every page it was started for and no error.
C15_JobsIndependent ==
    \A j \in Jobs :
        job_pc[j] = "done" =>
            /\ job_return[j] = "results"
            /\ job_errors[j] = 0
            /\ job_results[j] = { job_asked[j][i] : i \in 1..Len(job_asked[j]) }

\* how often x is in list
Occurrences(list, x) == Cardinality({ i \in 1..Len(list) : list[i] = x })

\* the URLs whose fetch failed
FailedUrls == { Visited(i) : i \in FailedVisits }

\* C16: a URL is in visited_urls from its fetch attempt on, so a URL whose fetch
\* failed is never fetched again and never put on the frontier again in the same
\* crawl, also when a page fetched later links to it.
C16_FailedUrlNeverRetried ==
    [][ \A u \in FailedUrls :
            /\ u \in visited_urls
            /\ Len(log') > Len(log) => log'[Len(log')][1] # u
            /\ Occurrences(urls_to_visit', u) <= Occurrences(urls_to_visit, u) ]_vars

\* C16: the fetch of a URL failed and a page fetched after it links to that URL
C16_Witness ==
    /\ pc = "done"
    /\ \E i \in FailedVisits, j \in 1..Len(log) :
        /\ i < j
        /\ <<Visited(j), Visited(i)>> \in edges

\* line 193: the key a frontier entry is fetched and stored under
Key(entry) == normalize_url(entry, url)

\* the links of the fetched pages, each with the key its target is fetched under
KeyedEdges == { <<f[1], Key(f[2])>> : f \in edges }

\* the keys within d links of start
RECURSIVE Within(_, _, _)
Within(d, start, links) ==
    IF d = 0 THEN {start}
    ELSE The({ near \cup { f[2] : f \in { g \in links : g[1] \in near } }
               : near \in {Within(d - 1, start, links)} })

\* the link distance of k from start: the number of the sets Within(0), Within(1), ...
\* it is not in
Distance(k, start, links) ==
    Cardinality({ d \in 0..Len(log) : k \notin Within(d, start, links) })

\* the link distances of the fetched URLs from the start URL, in the order of the
\* fetches
Distances ==
    The({ [i \in 1..Len(log) |-> Distance(Visited(i), start, links)]
          : start \in {Key(url)}, links \in {KeyedEdges} })

\* C17: the pages are fetched in the order of their discovery, the start URL first: no
\* URL at link distance d+1 is fetched before a fetched URL at distance d; and with
\* max_pages = 1 and a first fetch that succeeds the result is the entry of the start
\* URL alone, whatever links were discovered.
C17_BreadthFirst ==
    /\ Len(log) >= 1 => Visited(1) = Key(url)
    /\ The({ \A i, j \in 1..Len(log) : i < j => ds[i] <= ds[j] /\ ds[j] <= Len(log)
             : ds \in {Distances} })
    /\ (pc = "done" /\ max_pages = 1 /\ Len(log) >= 1 /\ 1 \notin FailedVisits)
            => DOMAIN results = {Key(url)}

\* C17: a crawl fetched URLs at the distances 0, 1, 1 and 2 in this order
C17_Witness ==
    /\ pc = "done"
    /\ Len(log) = 4
    /\ Distances = <<0, 1, 1, 2>>

\* C17: a crawl with max_pages = 1 returned the start page and left discovered links
\* on the frontier
C17_WitnessOnePage ==
    /\ pc = "done"
    /\ max_pages = 1
    /\ DOMAIN results = {Key(url)}
    /\ Len(urls_to_visit) >= 2

\* the entries a page visit appended to the frontier: what follows the entries that
\* were there, less the popped one
Appended ==
    IF Len(log') > Len(log)
    THEN SubSeq(urls_to_visit', Len(urls_to_visit), Len(urls_to_visit'))
    ELSE <<>>

\* a URL of the crawl's scope: http or https, on the host of the start URL
InScope(e) ==
    The({ p.scheme \in {<<"http">>, <<"https">>} /\ p.netloc = base_domain
          : p \in {UrlParse(e)} })

\* C18: a discovered link is appended to the frontier only if it is in scope, not in
\* visited_urls and not on the frontier already; so the frontier never holds a URL
\* string twice and no visited URL is appended.
C18_FrontierWithoutDuplicates ==
    [][ /\ \A e \in { Appended[i] : i \in 1..Len(Appended) } :
            /\ InScope(e)
            /\ e \notin visited_urls'
            /\ ~InList(Tail(urls_to_visit), e)
        /\ \A e \in { urls_to_visit'[i] : i \in 1..Len(urls_to_visit') } :
            Occurrences(urls_to_visit', e) = 1 ]_vars

\* C19: the normalized URL is the identity of a page during a crawl: no page is
\* fetched or stored under two keys that differ only by a trailing slash; a link back
\* to the site root on a subpage does not make the start page be fetched again.
C19_OneKeyPerPage ==
    /\ \A i, j \in 1..Len(log) :
        RStrip(Visited(i), "/") = RStrip(Visited(j), "/") => i = j
    /\ \A k, l \in DOMAIN results :
        RStrip(k, "/") = RStrip(l, "/") => k = l

\* C20: one crawl_website call attempts at most max_pages page loads, the failed ones
\* included.
C20_AttemptsWithinBudget ==
    Len(log) <= max_pages

(***************************************************************************)
(* Calls on one Crawler that follow one another: a call starts when no other  *)
(* call is running (CallsSpec).                                               *)
(***************************************************************************)
\* the call of job j is under way
Running(j) == job_pc[j] \notin {"idle", "done"}

\* crawl_website or crawl_pages is called after the calls before it have returned
CallStart(j) ==
    /\ \A k \in Jobs \ {j} : ~Running(k)
    /\ JobStart(j)

CallsNext ==
    \E j \in Jobs :
        \/ CallStart(j)
        \/ InitStart(j)
        \/ InitLaunch(j)
        \/ InitContext(j)
        \/ NewPage(j)
        \/ Fetch(j)
        \/ WebsiteJobReturns(j)
        \/ CloseBrowser(j)
        \/ StopPlaywright(j)

CallsSpec == JobsSpecInit /\ [][CallsNext]_vars

\* C21: in every sequence of crawl_website and crawl_pages calls on one Crawler
\* (crawl_pages ends with close), the browser is open whenever crawl_website is about
\* to load a page: a crawl_website that follows a close initializes the browser anew.
C21_BrowserOpenAtPageLoad ==
    \A j \in Jobs :
        (job_kind[j] = "website" /\ job_pc[j] = "loop" /\ job_urls[j] # <<>>)
            => Alive(crawler_context)

(***************************************************************************)
(* Further properties of the scroll handling (ScrollSpec).                   *)
(***************************************************************************)
\* the loop of infinite_scroll was entered
LoopEntered == max_scrolls # 0

\* C22: with smart_scroll set, scroll set or not, the page visit does exactly one probe
\* scroll, and it enters the scrolling loop if and only if the height after the probe
\* is greater than the height before it; with equal heights no further scroll follows.
C22_ProbeDecides ==
    smart_scroll =>
        /\ probe_scrolls <= 1
        /\ sphase = "Probing" => (probe_scrolls = 0 /\ ~LoopEntered)
        /\ sphase \in {"Scrolling", "Stable"} => probe_scrolls = 1
        /\ probe_scrolls = 1 => (LoopEntered <=> probed_height > initial_height)
        /\ (probe_scrolls = 1 /\ probed_height = initial_height) => loop_scrolls = 0

\* C22: scroll and smart_scroll are both set, the probe left the height as it was and
\* the handling ended without a further scroll
C22_Witness ==
    /\ smart_scroll
    /\ scroll
    /\ sphase = "Stable"
    /\ probe_scrolls = 1
    /\ initial_height > 0
    /\ probed_height = initial_height
    /\ loop_scrolls = 0

\* C23: the scrolling loop ends at the first measurement that equals the one before
\* it, and before its cap only then; once it has ended no scroll is issued.
C23_StopsAtFirstEqualHeights ==
    [][ /\ loop_scrolls' > loop_scrolls =>
            /\ sphase = "Scrolling"
            /\ last_height' = last_height => sphase' = "Stable"
            /\ (sphase' = "Stable" /\ loop_scrolls' < max_scrolls) => last_height' = last_height
            /\ converged' = (last_height' = last_height)
        /\ sphase = "Stable" =>
            (loop_scrolls' = loop_scrolls /\ probe_scrolls' = probe_scrolls) ]_vars

\* C23: the loop ended below its cap at its third measurement, the first that equals
\* the one before it
C23_Witness ==
    /\ sphase = "Stable"
    /\ converged
    /\ loop_scrolls = 3
    /\ last_height = MaxHeight
    /\ loop_scrolls < max_scrolls

\* C24: with scroll set and smart_scroll not, the page visit does no probe and runs the
\* loop that follows a growing probe: the same steps, the same early exit and the same
\* iteration cap.
C24_PlainScrollSameLoop ==
    (scroll /\ ~smart_scroll /\ sphase \in {"Scrolling", "Stable"}) =>
        /\ probe_scrolls = 0
        /\ LoopEntered
        /\ max_scrolls = SmartMaxScrolls

(***************************************************************************)
(* Further properties of the agent's monitor_websites and detect_changes     *)
(* (AgentSpec).                                                               *)
(***************************************************************************)
\* the website changes of a list of changes that carry the URL u
WebsiteChangesFor(changes, u) ==
    Cardinality({ k \in 1..Len(changes) : IsWebsiteChange(changes[k]) /\ changes[k].url = u })

\* the snapshots of the run that carry the URL u
SightingsOf(u) ==
    Cardinality({ i \in 1..Len(website_snapshots) : website_snapshots[i].url = u })

\* the snapshots of the run that are the first sighting of their URL: the URL is one a
\* Snapshot takes, get_snapshots has no document with it, no earlier snapshot of the
\* run has it
FirstSightings ==
    { i \in 1..Len(website_snapshots) :
        /\ ValidHttpUrl(website_snapshots[i].url)
        /\ PreviousSnapshot(snapshots, website_snapshots[i].url) = 0
        /\ \A j \in 1..(i - 1) : website_snapshots[j].url # website_snapshots[i].url }

\* the detect_changes node runs
DetectStep == stage = "apps_monitored" /\ stage' = "changes_detected"

\* C25: for a snapshot that is the first sighting of its URL, detect_changes records no
\* website change (the changes recorded for the URL are fewer than its sightings in the
\* run) and inserts the snapshot into the store.
C25_FirstSightingIsBaseline ==
    [][ DetectStep =>
            \A i \in FirstSightings :
                /\ WebsiteChangesFor(detected_changes', website_snapshots[i].url)
                       < SightingsOf(website_snapshots[i].url)
                /\ \E k \in (Len(snapshots) + 1)..Len(snapshots') :
                       snapshots'[k] = Document(website_snapshots[i]) ]_vars

\* C25: a run stored the one snapshot of a page it saw for the first time, beside the
\* snapshots of earlier runs, and recorded no change for it
C25_Witness ==
    /\ stage = "changes_detected"
    /\ Len(snapshots) >= 2
    /\ SightingsOf(PageX) = 1
    /\ Cardinality({ k \in 1..Len(snapshots) : snapshots[k].url = PageX }) = 1
    /\ WebsiteChangesFor(detected_changes, PageX) = 0
    /\ Len(website_snapshots) = 1

\* C26: after detect_changes, every website snapshot of the run is in the store, a
\* change detected for it or not: for every crawled URL the store holds a document
\* with that URL and the content observed in the run.
C26_EverySnapshotPersisted ==
    stage = "changes_detected" =>
        \A i \in 1..Len(website_snapshots) :
            \E k \in 1..Len(snapshots) :
                /\ snapshots[k].url = website_snapshots[i].url
                /\ snapshots[k].raw_text = website_snapshots[i].content
                /\ snapshots[k].content_hash = website_snapshots[i].content_hash

\* C27: every stored snapshot has content_hash = hash_content(raw_text), and every
\* website change recorded has changed = TRUE and, as old_hash, the content_hash of the
\* previous snapshot it was compared with (the first document of its URL).
C27_ChangeConsistentWithDetector ==
    /\ \A k \in 1..Len(snapshots) :
        snapshots[k].content_hash = hash_content(snapshots[k].raw_text)
    /\ \A k \in 1..Len(detected_changes) :
        IsWebsiteChange(detected_changes[k]) =>
            /\ detected_changes[k].change_details.changed
            /\ PreviousSnapshot(snapshots, detected_changes[k].url) # 0
            /\ detected_changes[k].change_details.old_hash
                   = snapshots[PreviousSnapshot(snapshots, detected_changes[k].url)].content_hash
            /\ detected_changes[k].change_details.new_hash
                   # detected_changes[k].change_details.old_hash

\* C27: a run recorded a website change against a snapshot of an earlier run
C27_Witness ==
    /\ stage = "changes_detected"
    /\ Len(website_snapshots) = 1
    /\ Len(snapshots) >= 2
    /\ \E k \in 1..Len(detected_changes) : IsWebsiteChange(detected_changes[k])

\* the pages a crawl fetched, among what monitor_websites is handed
FetchedPages == CrawledPages \ {<<ErrorKey, ErrorMessage>>}

\* C28: monitor_websites makes its snapshots of pages a crawl fetched and of nothing
\* else; a crawl that fails as a whole gives no snapshot and an entry of errors.
C28_SnapshotsOnlyOfFetchedPages ==
    \A i \in 1..Len(website_snapshots) :
        \E page \in FetchedPages : website_snapshots[i] = SnapshotOf(page)

(***************************************************************************)
(* Further properties of Crawler.normalize_url (NormalizeSpec, Spec).        *)
(***************************************************************************)
\* the root of the scope of a URL: its scheme and host with the path "/"
ScopeRoot(u) ==
    The({ UrlUnsplit(p.scheme, p.netloc, <<"/">>, <<>>, <<>>) : p \in {UrlParse(u)} })

\* a URL less one trailing slash, unless it is the scope root
StripOneSlash(u, root) ==
    IF EndsWith(u, "/") /\ u # root THEN Take(u, Len(u) - 1) ELSE u

\* C29: normalize_url gives the URL resolved against the base (urljoin), without its
\* fragment (urldefrag), less a single trailing slash unless that URL is the scope root
\* with its trailing slash; it changes nothing else.
C29_NormalizeAsSpecified ==
    npc \in {"once", "twice"} =>
        normalized_once
            = StripOneSlash(UrlDefrag(UrlJoin(base_url, raw_url)), ScopeRoot(base_url))

\* C30: a frontier entry, normalized against the page it was found on when it was
\* queued, is left as it is by the normalization against the start URL at line 193.
C30_NoRenormalizationDrift ==
    pc \in {"loop", "done"} =>
        \A i \in 1..Len(urls_to_visit) : Key(urls_to_visit[i]) = urls_to_visit[i]

(***************************************************************************)
(* should_crawl_url on every URL of CheckedUrls (ShouldCrawlSpec).            *)
(***************************************************************************)
ShouldCrawlInit ==
    CrawlInit /\ ScrollIdle /\ AgentInit /\ DiffIdle /\ NormIdle /\ CleanIdle /\ JobsIdle
        /\ CheckInit /\ FlowIdle /\ ApiIdle

ShouldCrawlNext == ShouldCrawl

ShouldCrawlSpec == ShouldCrawlInit /\ [][ShouldCrawlNext]_vars

\* the URL has the scheme http or https
IsHttp(p) == ~p.err /\ p.scheme \in {<<"http">>, <<"https">>}

\* C31: should_crawl_url returns False for every http or https URL whose host is not
\* the host of the scope, a URL without a host included.
C31_OtherHostRejected ==
    spc = "done" =>
        The({ (IsHttp(p) /\ p.netloc # scope_domain) => verdict = FALSE
              : p \in {UrlParse(checked_url)} })

\* the URL points to a file with a deny-list extension: its path ends with one, in any
\* letter case
PointsToDeniedFile(p) == \E ext \in skip_extensions : EndsWith(Lower(p.path), ext)

\* C33: should_crawl_url returns False for every URL that points to a file with a
\* deny-list extension, in any letter case and with a query string or without, and it
\* accepts an in-scope document URL whatever its query string ends with.
C33_DenyListByPath ==
    spc = "done" =>
        The({ /\ (~p.err /\ PointsToDeniedFile(p)) => verdict = FALSE
              /\ (IsHttp(p) /\ p.netloc = scope_domain /\ ~PointsToDeniedFile(p))
                    => verdict = TRUE
              : p \in {UrlParse(checked_url)} })

\* the URLs of the page visits so far
Fetched == { log[i][1] : i \in 1..Len(log) }

\* C32: a link whose scheme is not http or https is never appended to the frontier and
\* never fetched (the frontier holds the start URL and http or https links only), and a
\* start page whose only link is a mailto: link gives a result
\* with 1 entry.
C32_OnlyHttpLinksFollowed ==
    /\ \A link \in skipped :
          ~IsHttp(UrlParse(link)) => ~InList(urls_to_visit, link) /\ link \notin Fetched
    /\ \A i \in 1..Len(urls_to_visit) :
          urls_to_visit[i] # url => IsHttp(UrlParse(urls_to_visit[i]))
    /\ \A link \in Fetched : IsHttp(UrlParse(link))
    /\ (pc = "done" /\ Len(log) = 1 /\ discovered = {} /\ skipped = {HrefMailto})
          => NumResults = 1

\* a crawl of a start page whose only link is the mailto: link has returned
C32_Witness ==
    /\ pc = "done"
    /\ max_pages > 1
    /\ Len(log) = 1
    /\ log[1][2] = "ok"
    /\ discovered = {}
    /\ skipped = {HrefMailto}
    /\ NumResults = 1

(***************************************************************************)
(* crawl_website after earlier calls on the same Crawler (CallsSpec).         *)
(***************************************************************************)
\* the pages job j was called for
Asked(j) == { job_asked[j][i] : i \in 1..Len(job_asked[j]) }

\* C34: the outcome of a crawl_website call does not depend on any earlier crawl made
\* with the same Crawler: the call returns the pages it returns on a new Crawler, each
\* page it was called for and no error.
C34_OutcomeIndependentOfEarlierCrawl ==
    \A j \in Jobs :
        (job_kind[j] = "website" /\ job_pc[j] = "done") =>
            /\ job_return[j] = "results"
            /\ job_errors[j] = 0
            /\ job_results[j] = Asked(j)

(***************************************************************************)
(* The tracking workflow (FlowSpec).                                          *)
(***************************************************************************)
FlowInit ==
    CrawlInit /\ ScrollIdle /\ AgentInit /\ DiffIdle /\ NormIdle /\ CleanIdle /\ JobsIdle
        /\ CheckIdle /\ FlowIdle /\ ApiIdle

FlowNext == RunNode \/ ReachEnd

FlowSpec == FlowInit /\ [][FlowNext]_vars

\* a stage of the run recorded an error: it appended to state["errors"] or set stage
\* to "error"
ErrorRecorded == flow_errors # <<>> \/ flow_stage = "error"

\* C35: if any stage of a run of the tracking workflow records an error, the
\* handle_errors node runs before the workflow ends and the error notification is sent.
C35_ErrorsAreHandled ==
    (flow_node = "END" /\ ErrorRecorded) =>
        /\ InList(flow_path, "handle_errors")
        /\ error_notified

(***************************************************************************)
(* The tracking endpoints (ApiSpec), and the same without POST               *)
(* /tracking/stop (NoStopSpec).                                               *)
(***************************************************************************)
ApiInit ==
    CrawlInit /\ ScrollIdle /\ AgentInit /\ DiffIdle /\ NormIdle /\ CleanIdle /\ JobsIdle
        /\ CheckIdle /\ FlowIdle /\ ApiIdle

ApiNext ==
    \/ StartTracking
    \/ StartRejected
    \/ StopTracking
    \/ GenerateReport
    \/ CrawlCompetitor
    \/ RunFinishes

ApiSpec == ApiInit /\ [][ApiNext]_vars

NoStopNext ==
    \/ StartTracking
    \/ StartRejected
    \/ GenerateReport
    \/ CrawlCompetitor
    \/ RunFinishes

\* every run that was started finishes
NoStopSpec == ApiInit /\ [][NoStopNext]_vars /\ WF_vars(RunFinishes)

\* C36: while a run started through POST /tracking/start has not finished, no sequence
\* of API calls starts a second run: that run is the only tracking run in flight.
C36_OneRunInFlight == in_flight["start"] > 0 => TotalInFlight = 1

\* the run of an accepted POST /tracking/start has finished and the status still
\* says RUNNING
StartRunOver ==
    /\ tracking_status = "running"
    /\ in_flight["start"] = 0

\* C37: once the run of a POST /tracking/start has finished, with success or with an
\* error, the tracking status eventually leaves RUNNING without any POST /tracking/stop.
C37_StatusLeavesRunning == StartRunOver ~> tracking_status # "running"

(***************************************************************************)
(* The diff of two one-line texts (DetectSpec).                               *)
(***************************************************************************)
\* a non-empty text of one line: it holds no line end
SingleLine(text) == text # <<>> /\ ~Has(text, "\n")

\* the lines of the diff detect_changes returned
DiffOutput == Split(analysis.diff, "\n")

\* the lines of the diff after the header of unified_diff
DiffBody == Drop(DiffOutput, 3)

\* the lines of the diff body that carry marker c
BodyLines(c) == { i \in 1..Len(DiffBody) : Head(DiffBody[i]) = c }

\* C38: for two different non-empty single-line texts the diff of detect_changes
\* holds, after the header of the unified diff, exactly one removed line and exactly
\* one added line.
C38_OneMarkerPair ==
    (returned /\ SingleLine(old_text) /\ SingleLine(new_text) /\ old_text # new_text) =>
        /\ Take(DiffOutput, 3) = << <<"--- old">>, <<"+++ new">>, <<"@@">> >>
        /\ Len(DiffBody) = 2
        /\ Cardinality(BodyLines("-")) = 1
        /\ Cardinality(BodyLines("+")) = 1
        /\ DiffBody = << <<"-">> \o old_text, <<"+">> \o new_text >>

\* detect_changes returned for two different one-line texts of more than one character
C38_Witness ==
    /\ returned
    /\ old_text = <<"a", "b">>
    /\ new_text = <<"a", "a">>
    /\ DiffBody = << <<"-", "a", "b">>, <<"+", "a", "a">> >>

====
